---- MODULE Spec2Model ----
(***************************************************************************)
(* AccountStateStore (src/src/AccountStateStore.ts, and its order-aware    *)
(* variant src/unnamed/part_003) and PersistedAccountStateStore            *)
(* (src/src/AccountStateStore.redis.ts) as a state machine.                *)
(*                                                                         *)
(* A JavaScript object with string keys is a sequence of entries           *)
(* [key, value] in insertion order: writing an existing key keeps its      *)
(* place, deleting a key removes the entry, writing a new key appends.     *)
(***************************************************************************)
EXTENDS Integers, Sequences, FiniteSets, TLC

\* ---------------------------------------------------------------- bounds
\* prices a caller passes in an order: 1..MaxPrice
MaxPrice == 2
\* values a caller stores under a metadata key: 0..MaxMetaVal
MaxMetaVal == 1
\* timer callbacks that can be in flight at the same time
MaxTicks == 2

\* ---------------------------------------------------------------- domains
Symbols == {"X", "Y"}
Sides == {"LONG", "SHORT", "NONE"}
OrderIds == {"o1", "o2"}
OrderStatuses ==
    {"NEW", "PARTIALLY_FILLED", "FILLED", "CANCELLED", "EXPIRED", "REJECTED", "PENDING_CANCEL"}
MetaKeys == {"leaderId", "entryCount"}
\* the symbol the persistence scenarios write metadata for
PersistSymbols == {"X"}

\* JavaScript's undefined
Undefined == [undefined |-> TRUE]

\* a position with a zero quantity is inactive, one with a non-zero quantity active
Positions == [assetQty : {0, 1}, positionPrice : {100}, valueUpnl : {0}]
Orders == [exchangeOrderId : OrderIds, status : OrderStatuses, price : 1..MaxPrice]
Metadata == [MetaKeys -> 0..MaxMetaVal]

\* ---------------------------------------------------------------- JS objects
ObjHas(obj, k) == \E i \in 1..Len(obj) : obj[i].key = k

ObjIdx(obj, k) == CHOOSE i \in 1..Len(obj) : obj[i].key = k

ObjKeys(obj) == [i \in 1..Len(obj) |-> obj[i].key]

ObjValues(obj) == [i \in 1..Len(obj) |-> obj[i].value]

\* obj[k], with dflt where JavaScript gives undefined
ObjGet(obj, k, dflt) == IF ObjHas(obj, k) THEN obj[ObjIdx(obj, k)].value ELSE dflt

\* obj[k] = v
ObjSet(obj, k, v) ==
    IF ObjHas(obj, k)
    THEN [obj EXCEPT ![ObjIdx(obj, k)].value = v]
    ELSE Append(obj, [key |-> k, value |-> v])

\* delete obj[k]
ObjDelete(obj, k) == SelectSeq(obj, LAMBDA e : e.key # k)

\* ---------------------------------------------------------------- state
VARIABLES
    accountPositionState,               \* symbol -> side -> position | undefined
    accountOtherState,                  \* balance, previousBalance, hedgedPositions
    accountOrders,                      \* Map exchangeOrderId -> order, in insertion order
    accountPositionMetadata,            \* symbol -> metadata
    isPendingPersistPositionMetadata,
    didRestorePositionMetadata,
    redisData,                          \* what the backend holds under 'positionMetadata'
    timer,                              \* the timer callbacks in flight
    lastError,                          \* what the latest store call threw, "none" if it returned
    lastPositionWrite,                  \* history: latest set/delete per (symbol, side)
    lastUpsert,                         \* history: latest upsert per order id since its last delete
    writeOutcome,                       \* history: how the latest finished backend write ended
    accountLeverageState,               \* symbol -> leverage
    lastSummary,                        \* what getSessionSummary returned, while it is the latest store call
    depthInput,                         \* the arguments the depth utilities are called with
    depthReport,                        \* what the latest call of a depth utility returned
    peer,                               \* a second store instance: its metadata table and flag
    sharedMetadata                      \* the symbols whose metadata is one and the same object

vars == <<accountPositionState, accountOtherState, accountOrders, accountPositionMetadata,
          isPendingPersistPositionMetadata, didRestorePositionMetadata, redisData, timer,
          lastError, lastPositionWrite, lastUpsert, writeOutcome, accountLeverageState, lastSummary,
          depthInput, depthReport, peer, sharedMetadata>>

positionVars == <<accountPositionState, accountOtherState, lastPositionWrite>>
orderVars == <<accountOrders, lastUpsert>>
metadataVars == <<accountPositionMetadata, isPendingPersistPositionMetadata>>
persistVars == <<didRestorePositionMetadata, redisData, timer, writeOutcome>>
leverageVars == <<accountLeverageState>>
depthVars == <<depthInput, depthReport>>

\* no order upserted yet
NoOrder == [none |-> TRUE]
\* the backend holds nothing under the key
NoData == <<[nodata |-> TRUE]>>
\* a timer callback that is not running
Idle == [pc |-> "idle"]
\* the latest store call was not getSessionSummary
NoSummary == [nosummary |-> TRUE]
\* no depth utility was called
NoReport == [noreport |-> TRUE]

\* the fields of a new store but for the order map
InitButOrders ==
    /\ accountPositionState = <<>>
    /\ accountOtherState = [balance |-> 0, previousBalance |-> 0, hedgedPositions |-> 0]
    /\ accountPositionMetadata = <<>>
    /\ isPendingPersistPositionMetadata = FALSE
    /\ didRestorePositionMetadata = FALSE
    /\ timer = [t \in 1..MaxTicks |-> Idle]
    /\ lastError = "none"
    /\ lastPositionWrite = [s \in Symbols |-> [d \in Sides |-> Undefined]]
    /\ lastUpsert = [id \in OrderIds |-> NoOrder]
    /\ writeOutcome = "none"
    /\ accountLeverageState = <<>>
    /\ lastSummary = NoSummary
    /\ depthReport = NoReport
    /\ peer = [sharesTable |-> FALSE, accountPositionMetadata |-> <<>>,
               isPendingPersistPositionMetadata |-> FALSE]
    /\ sharedMetadata = {}

InitStore == InitButOrders /\ accountOrders = <<>>

Init == InitStore /\ redisData = NoData /\ depthInput = NoReport

\* ================================================================ positions
\* the truthiness test position?.assetQty
IsActive(position) == position # Undefined /\ position.assetQty # 0

\* an initial record that holds a flat position on every side
assertInitialStateActivePosition_flatPositions(state, symbol) ==
    IF ~ObjHas(state, symbol)
    THEN LET flat == [assetQty |-> 0, positionPrice |-> 100, valueUpnl |-> 0]
         IN ObjSet(state, symbol, << [key |-> "LONG", value |-> flat],
                                     [key |-> "SHORT", value |-> flat],
                                     [key |-> "NONE", value |-> flat] >>)
    ELSE state

assertInitialStateActivePosition(state, symbol) ==
    IF ~ObjHas(state, symbol)
    THEN ObjSet(state, symbol, << [key |-> "LONG", value |-> Undefined],
                                  [key |-> "SHORT", value |-> Undefined],
                                  [key |-> "NONE", value |-> Undefined] >>)
    ELSE state

\* the value getActivePosition returns
getActivePosition(symbol, side) ==
    ObjGet(ObjGet(assertInitialStateActivePosition(accountPositionState, symbol), symbol, <<>>),
           side, Undefined)

GetActivePosition(symbol, side) ==
    /\ accountPositionState' = assertInitialStateActivePosition(accountPositionState, symbol)
    /\ lastError' = "none"
    /\ UNCHANGED <<accountOtherState, lastPositionWrite>>
    /\ UNCHANGED <<orderVars, metadataVars, persistVars, leverageVars, depthVars, peer, sharedMetadata>>
    /\ lastSummary' = NoSummary

SetActivePosition(symbol, side, newState) ==
    /\ LET st == assertInitialStateActivePosition(accountPositionState, symbol)
       IN accountPositionState' = ObjSet(st, symbol, ObjSet(ObjGet(st, symbol, <<>>), side, newState))
    /\ lastPositionWrite' = [lastPositionWrite EXCEPT ![symbol][side] = newState]
    /\ lastError' = "none"
    /\ UNCHANGED accountOtherState
    /\ UNCHANGED <<orderVars, metadataVars, persistVars, leverageVars, depthVars, peer, sharedMetadata>>
    /\ lastSummary' = NoSummary

\* a delete that drops the whole record of the symbol
DeleteActivePosition_wholeSymbol(symbol, side) ==
    /\ accountPositionState' = ObjDelete(accountPositionState, symbol)
    /\ lastPositionWrite' = [lastPositionWrite EXCEPT ![symbol][side] = Undefined]
    /\ lastError' = "none"
    /\ UNCHANGED accountOtherState
    /\ UNCHANGED <<orderVars, metadataVars, persistVars, leverageVars, depthVars, peer, sharedMetadata>>
    /\ lastSummary' = NoSummary

\* a delete that takes the metadata of the symbol with the position
DeleteActivePosition_dropsMetadata(symbol, side) ==
    /\ LET st == assertInitialStateActivePosition(accountPositionState, symbol)
       IN accountPositionState' = ObjSet(st, symbol, ObjDelete(ObjGet(st, symbol, <<>>), side))
    /\ lastPositionWrite' = [lastPositionWrite EXCEPT ![symbol][side] = Undefined]
    /\ accountPositionMetadata' = ObjDelete(accountPositionMetadata, symbol)
    /\ lastError' = "none"
    /\ UNCHANGED <<accountOtherState, isPendingPersistPositionMetadata>>
    /\ UNCHANGED <<orderVars, persistVars, leverageVars, depthVars, peer, sharedMetadata>>
    /\ lastSummary' = NoSummary

\* a delete that closes the symbol on both sides of a hedge
DeleteActivePosition_bothSides(symbol, side) ==
    /\ LET st == assertInitialStateActivePosition(accountPositionState, symbol)
       IN accountPositionState' =
              ObjSet(st, symbol, ObjDelete(ObjDelete(ObjGet(st, symbol, <<>>), "LONG"), "SHORT"))
    /\ lastPositionWrite' = [lastPositionWrite EXCEPT ![symbol][side] = Undefined]
    /\ lastError' = "none"
    /\ UNCHANGED accountOtherState
    /\ UNCHANGED <<orderVars, metadataVars, persistVars, leverageVars, depthVars, peer, sharedMetadata>>
    /\ lastSummary' = NoSummary

DeleteActivePosition(symbol, side) ==
    /\ LET st == assertInitialStateActivePosition(accountPositionState, symbol)
       IN accountPositionState' = ObjSet(st, symbol, ObjDelete(ObjGet(st, symbol, <<>>), side))
    /\ lastPositionWrite' = [lastPositionWrite EXCEPT ![symbol][side] = Undefined]
    /\ lastError' = "none"
    /\ UNCHANGED accountOtherState
    /\ UNCHANGED <<orderVars, metadataVars, persistVars, leverageVars, depthVars, peer, sharedMetadata>>
    /\ lastSummary' = NoSummary

\* an inner loop that counts every key of the record, whatever it holds
RECURSIVE sideLoop_countsKeys(_, _, _, _)
sideLoop_countsKeys(sides, i, positionsForSymbol, acc) ==
    IF i > Len(sides) THEN acc
    ELSE sideLoop_countsKeys(sides, i + 1, positionsForSymbol + 1,
                             [total |-> acc.total + 1,
                              totalHedged |-> IF positionsForSymbol + 1 = 2
                                              THEN acc.totalHedged + 1 ELSE acc.totalHedged])

\* the inner loop of getTotalActivePositions over the sides of one symbol
RECURSIVE sideLoop(_, _, _, _)
sideLoop(sides, i, positionsForSymbol, acc) ==
    IF i > Len(sides) THEN acc
    ELSE LET n == IF IsActive(sides[i].value) THEN positionsForSymbol + 1 ELSE positionsForSymbol
         IN sideLoop(sides, i + 1, n,
                     [total |-> IF IsActive(sides[i].value) THEN acc.total + 1 ELSE acc.total,
                      totalHedged |-> IF n = 2 THEN acc.totalHedged + 1 ELSE acc.totalHedged])

\* the outer loop of getTotalActivePositions over the symbols
RECURSIVE symbolLoop(_, _, _)
symbolLoop(state, j, acc) ==
    IF j > Len(state) THEN acc
    ELSE symbolLoop(state, j + 1, sideLoop(state[j].value, 1, 0, acc))

\* the value getTotalActivePositions returns
getTotalActivePositions == symbolLoop(accountPositionState, 1, [total |-> 0, totalHedged |-> 0])

GetTotalActivePositions ==
    /\ accountOtherState' = [accountOtherState EXCEPT !.hedgedPositions = getTotalActivePositions.totalHedged]
    /\ lastError' = "none"
    /\ UNCHANGED <<accountPositionState, lastPositionWrite>>
    /\ UNCHANGED <<orderVars, metadataVars, persistVars, leverageVars, depthVars, peer, sharedMetadata>>
    /\ lastSummary' = NoSummary

\* a push that keeps every stored position, whatever its quantity
pushIfActive_anyStored(allPositions, position) ==
    IF position # Undefined THEN Append(allPositions, position) ELSE allPositions

\* if (position?.assetQty) allPositions.push(position)
pushIfActive(allPositions, position) ==
    IF IsActive(position) THEN Append(allPositions, position) ELSE allPositions

\* the inner loop of getAllPositions over the sides of one symbol
RECURSIVE allSidesLoop(_, _, _)
allSidesLoop(sides, i, allPositions) ==
    IF i > Len(sides) THEN allPositions
    ELSE allSidesLoop(sides, i + 1, pushIfActive(allPositions, sides[i].value))

\* the outer loop of getAllPositions over the symbols
RECURSIVE allSymbolsLoop(_, _, _)
allSymbolsLoop(state, j, allPositions) ==
    IF j > Len(state) THEN allPositions
    ELSE allSymbolsLoop(state, j + 1, allSidesLoop(state[j].value, 1, allPositions))

\* the value getAllPositions returns
getAllPositions == allSymbolsLoop(accountPositionState, 1, <<>>)

GetAllPositions ==
    /\ lastError' = "none"
    /\ UNCHANGED positionVars
    /\ UNCHANGED <<orderVars, metadataVars, persistVars, leverageVars, depthVars, peer, sharedMetadata>>
    /\ lastSummary' = NoSummary

NextPositions ==
    \/ \E s \in Symbols, d \in Sides : GetActivePosition(s, d)
    \/ \E s \in Symbols, d \in Sides, p \in Positions : SetActivePosition(s, d, p)
    \/ \E s \in Symbols, d \in Sides : DeleteActivePosition(s, d)
    \/ GetTotalActivePositions
    \/ GetAllPositions

SpecPositions == Init /\ [][NextPositions]_vars

\* C1: for every symbol and side, getActivePosition returns the position passed to
\* the latest setActivePosition of that pair, and undefined when a
\* deleteActivePosition came after it or the pair was never written.
C1_GetReturnsLastWrite ==
    \A s \in Symbols, d \in Sides : getActivePosition(s, d) = lastPositionWrite[s][d]

\* X.LONG holds a written position, X.SHORT was deleted, Y was never touched
C1_Witness ==
    /\ IsActive(getActivePosition("X", "LONG"))
    /\ ObjHas(accountPositionState, "X")
    /\ ~ObjHas(ObjGet(accountPositionState, "X", <<>>), "SHORT")
    /\ ~ObjHas(accountPositionState, "Y")

\* the symbols whose LONG and SHORT slots both hold a non-zero quantity
HedgedSymbols ==
    {s \in Symbols : IsActive(getActivePosition(s, "LONG")) /\ IsActive(getActivePosition(s, "SHORT"))}

\* C4: the totalHedged returned by getTotalActivePositions is the number of symbols
\* whose LONG and SHORT slots are both active (1 for a store with only X.LONG and
\* X.SHORT active, 0 for a store with only X.LONG active).
C4_TotalHedgedCountsHedgedSymbols ==
    getTotalActivePositions.totalHedged = Cardinality(HedgedSymbols)

\* the slots of the store: a stored symbol and a key of its record
Slots ==
    {sd \in (1..Len(accountPositionState)) \X (1..3) : sd[2] <= Len(accountPositionState[sd[1]].value)}

SlotValue(sd) == accountPositionState[sd[1]].value[sd[2]].value

\* the slots that hold a position with a non-zero asset quantity
ActiveSlots == {sd \in Slots : SlotValue(sd) # Undefined /\ SlotValue(sd).assetQty # 0}

\* C11: getAllPositions returns exactly the positions stored in (symbol, side) slots
\* whose asset quantity is non-zero, each once: every position occurs in the list as
\* often as active slots hold it, and no element has a zero quantity or is undefined.
C11_AllPositionsAreTheActiveSlots ==
    /\ \A i \in 1..Len(getAllPositions) :
          getAllPositions[i] # Undefined /\ getAllPositions[i].assetQty # 0
    /\ \A p \in Positions :
          Cardinality({i \in 1..Len(getAllPositions) : getAllPositions[i] = p})
              = Cardinality({sd \in ActiveSlots : SlotValue(sd) = p})

\* active positions on both symbols, next to a zero-quantity position and a deleted slot
C11_Witness ==
    /\ Len(getAllPositions) = 3
    /\ \E sd \in Slots : SlotValue(sd) # Undefined /\ SlotValue(sd).assetQty = 0
    /\ \E j \in 1..Len(accountPositionState) : Len(accountPositionState[j].value) < 3

\* C12: the total returned by getTotalActivePositions is the number of (symbol, side)
\* slots that hold a position with a non-zero asset quantity, and so the length of
\* the list getAllPositions returns.
C12_TotalCountsActiveSlots ==
    /\ getTotalActivePositions.total = Cardinality(ActiveSlots)
    /\ getTotalActivePositions.total = Len(getAllPositions)

\* four active positions over both symbols, one symbol with an inactive LONG slot
C12_Witness ==
    /\ getTotalActivePositions.total = 4
    /\ \E s \in Symbols : ~IsActive(getActivePosition(s, "LONG"))

\* ================================================================ price events
\* a sign-blind profit: the quantity counts as a size
getUnrealisedPNL_sizeOnly(lastSeenPrice, positionAssetQuantity, positionAvgEntryPrice) ==
    LET priceDiff == lastSeenPrice - positionAvgEntryPrice
    IN (IF positionAssetQuantity < 0 THEN -positionAssetQuantity ELSE positionAssetQuantity) * priceDiff

getUnrealisedPNL(lastSeenPrice, positionAssetQuantity, positionAvgEntryPrice) ==
    LET priceDiff == lastSeenPrice - positionAvgEntryPrice
    IN positionAssetQuantity * priceDiff

\* a repricing that also takes the margin of the position to the new profit
repriced_andMargin(positions, side, price) ==
    LET pos == ObjGet(positions, side, Undefined)
    IN IF pos # Undefined
       THEN ObjSet(positions, side,
                   [pos EXCEPT !.valueUpnl = getUnrealisedPNL(price, pos.assetQty, pos.positionPrice),
                               !.marginValue = getUnrealisedPNL(price, pos.assetQty, pos.positionPrice)])
       ELSE positions

\* one half of processPriceEvent: the position stored on a side, if any, gets its valueUpnl
repriced(positions, side, price) ==
    LET pos == ObjGet(positions, side, Undefined)
    IN IF pos # Undefined
       THEN ObjSet(positions, side,
                   [pos EXCEPT !.valueUpnl = getUnrealisedPNL(price, pos.assetQty, pos.positionPrice)])
       ELSE positions

\* the stored object itself is changed, so the position written last is changed with it
ProcessPriceEvent(symbol, price) ==
    /\ LET st == assertInitialStateActivePosition(accountPositionState, symbol)
           after == repriced(repriced(ObjGet(st, symbol, <<>>), "LONG", price), "SHORT", price)
       IN /\ accountPositionState' = ObjSet(st, symbol, after)
          /\ lastPositionWrite' =
                 [lastPositionWrite EXCEPT ![symbol] =
                     [d \in Sides |-> IF d \in {"LONG", "SHORT"} /\ ObjHas(after, d)
                                      THEN ObjGet(after, d, Undefined)
                                      ELSE lastPositionWrite[symbol][d]]]
    /\ lastError' = "none"
    /\ UNCHANGED accountOtherState
    /\ UNCHANGED <<orderVars, metadataVars, persistVars, leverageVars, depthVars, peer, sharedMetadata>>
    /\ lastSummary' = NoSummary

\* ================================================================ position queries
\* a hedged count that is worked out anew on every call
getTotalHedgedPositions_recomputes == getTotalActivePositions.totalHedged

getTotalHedgedPositions == accountOtherState.hedgedPositions

\* a query that takes every stored position for an open one
isSymbolSideInPosition_anyStored(symbol, positionSide) ==
    getActivePosition(symbol, positionSide) # Undefined

\* !!symbolStore?.assetQty && symbolStore?.assetQty !== 0
isSymbolSideInPosition(symbol, positionSide) ==
    LET symbolStore == getActivePosition(symbol, positionSide)
    IN IsActive(symbolStore) /\ symbolStore.assetQty # 0

isSymbolInAnyPosition(symbol) ==
    isSymbolSideInPosition(symbol, "LONG") \/ isSymbolSideInPosition(symbol, "SHORT")

\* the query reads the slot with getActivePosition, which makes the record of the symbol
IsSymbolSideInPosition(symbol, positionSide) ==
    /\ accountPositionState' = assertInitialStateActivePosition(accountPositionState, symbol)
    /\ lastError' = "none"
    /\ UNCHANGED <<accountOtherState, lastPositionWrite>>
    /\ UNCHANGED <<orderVars, metadataVars, persistVars, leverageVars, depthVars, peer, sharedMetadata>>
    /\ lastSummary' = NoSummary

\* both calls of isSymbolSideInPosition are on the one symbol
IsSymbolInAnyPosition(symbol) ==
    /\ accountPositionState' = assertInitialStateActivePosition(accountPositionState, symbol)
    /\ lastError' = "none"
    /\ UNCHANGED <<accountOtherState, lastPositionWrite>>
    /\ UNCHANGED <<orderVars, metadataVars, persistVars, leverageVars, depthVars, peer, sharedMetadata>>
    /\ lastSummary' = NoSummary

\* the sides a one-way or hedged account holds positions on
HedgeSides == {"LONG", "SHORT"}

NextSlots ==
    \/ \E s \in Symbols, d \in Sides : GetActivePosition(s, d)
    \/ \E s \in Symbols, d \in HedgeSides, p \in Positions : SetActivePosition(s, d, p)
    \/ \E s \in Symbols, d \in HedgeSides : DeleteActivePosition(s, d)
    \/ \E s \in Symbols, d \in Sides : IsSymbolSideInPosition(s, d)
    \/ \E s \in Symbols : IsSymbolInAnyPosition(s)
    \/ \E s \in Symbols : ProcessPriceEvent(s, 110)
    \/ GetTotalActivePositions
    \/ GetAllPositions

SpecSlots == Init /\ [][NextSlots]_vars

\* C24: for every symbol and side, isSymbolSideInPosition is true exactly when the
\* slot holds a position with a non-zero asset quantity: false for a slot never
\* written, for a deleted slot and for a stored position of quantity 0.
C24_InPositionIffNonZeroQuantity ==
    \A s \in Symbols, d \in Sides :
        isSymbolSideInPosition(s, d) <=>
            /\ lastPositionWrite[s][d] # Undefined
            /\ lastPositionWrite[s][d].assetQty # 0

\* X.LONG is open, X.SHORT holds a quantity of 0, Y.LONG was written and deleted,
\* Y.SHORT was never written
C24_Witness ==
    /\ isSymbolSideInPosition("X", "LONG")
    /\ lastPositionWrite["X"]["SHORT"] # Undefined
    /\ ~isSymbolSideInPosition("X", "SHORT")
    /\ ObjHas(accountPositionState, "Y")
    /\ ~ObjHas(ObjGet(accountPositionState, "Y", <<>>), "LONG")
    /\ ObjHas(ObjGet(accountPositionState, "Y", <<>>), "SHORT")
    /\ lastPositionWrite["Y"]["SHORT"] = Undefined
    /\ ~isSymbolInAnyPosition("Y")

\* the writes of the LONG and SHORT slots of both symbols
NextSlotWrites ==
    \/ \E s \in Symbols, d \in HedgeSides, p \in Positions : SetActivePosition(s, d, p)
    \/ \E s \in Symbols, d \in HedgeSides : DeleteActivePosition(s, d)

SpecSlotWrites == Init /\ [][NextSlotWrites]_vars

\* C29: deleteActivePosition(symbol, side) clears that slot alone: the positions on
\* the other sides of the symbol and on every side of every other symbol are what
\* they were, so a symbol keeps the position of its opposite side.
C29_DeleteClearsOneSlot ==
    [][\A s \in Symbols, d \in HedgeSides :
          DeleteActivePosition(s, d) =>
              /\ getActivePosition(s, d)' = Undefined
              /\ \A s2 \in Symbols, d2 \in Sides :
                    <<s2, d2>> # <<s, d>> => getActivePosition(s2, d2)' = getActivePosition(s2, d2)]_vars

\* X lost its LONG slot and keeps an open SHORT position, Y holds an open LONG one
C29_Witness ==
    /\ ObjHas(accountPositionState, "X")
    /\ ~ObjHas(ObjGet(accountPositionState, "X", <<>>), "LONG")
    /\ lastPositionWrite["X"]["LONG"] = Undefined
    /\ isSymbolSideInPosition("X", "SHORT")
    /\ isSymbolSideInPosition("Y", "LONG")

\* the record assertInitialStateActivePosition makes for a symbol
InitialRecord ==
    << [key |-> "LONG", value |-> Undefined], [key |-> "SHORT", value |-> Undefined],
       [key |-> "NONE", value |-> Undefined] >>

\* C30: a read of a symbol never seen before (getActivePosition,
\* isSymbolSideInPosition, isSymbolInAnyPosition, processPriceEvent) returns
\* undefined or false, and the results of getAllPositions, getTotalActivePositions
\* and getActivePosition of every symbol and side are after it what they were.
C30_AutoInitIsNotObservable ==
    [][\A s \in Symbols, d \in Sides :
          /\ ~ObjHas(accountPositionState, s)
          /\ \/ GetActivePosition(s, d)
             \/ IsSymbolSideInPosition(s, d)
             \/ IsSymbolInAnyPosition(s)
             \/ ProcessPriceEvent(s, 110)
          => /\ getActivePosition(s, d) = Undefined
             /\ ~isSymbolSideInPosition(s, d)
             /\ ~isSymbolInAnyPosition(s)
             /\ getAllPositions' = getAllPositions
             /\ getTotalActivePositions' = getTotalActivePositions
             /\ \A s2 \in Symbols, d2 \in Sides :
                   getActivePosition(s2, d2)' = getActivePosition(s2, d2)]_vars

\* a read made the record of Y, which no write touched, next to an open position of X
C30_Witness ==
    /\ ObjGet(accountPositionState, "Y", <<>>) = InitialRecord
    /\ isSymbolSideInPosition("X", "LONG")
    /\ Len(getAllPositions) = 1
    /\ getTotalActivePositions.total = 1

\* what the loops of getAllPositions and getTotalActivePositions add for one symbol
positionsUnder(symbol) == allSidesLoop(ObjGet(accountPositionState, symbol, <<>>), 1, <<>>)

totalUnder(symbol) ==
    sideLoop(ObjGet(accountPositionState, symbol, <<>>), 1, 0, [total |-> 0, totalHedged |-> 0]).total

\* C39: the position queries agree in every reachable state: for every symbol,
\* isSymbolInAnyPosition is true exactly when getAllPositions() holds a position
\* stored under the symbol, on any side, the NONE slot too, which is exactly when
\* the symbol adds to getTotalActivePositions().total.
C39_PositionQueriesAgree ==
    \A s \in Symbols :
        /\ isSymbolInAnyPosition(s) <=> Len(positionsUnder(s)) > 0
        /\ isSymbolInAnyPosition(s) <=> totalUnder(s) > 0

\* ================================================================ balance, leverage, summary
getWalletBalance == accountOtherState.balance

\* a previous balance that follows the current one
getPreviousBalance_isCurrent == accountOtherState.balance

getPreviousBalance == accountOtherState.previousBalance

\* a setter that refuses a balance below zero
SetWalletBalance_rejectsNegative(bal) ==
    /\ IF bal < 0
       THEN lastError' = "error" /\ UNCHANGED accountOtherState
       ELSE lastError' = "none" /\ accountOtherState' = [accountOtherState EXCEPT !.balance = bal]
    /\ UNCHANGED <<accountPositionState, lastPositionWrite>>
    /\ UNCHANGED <<orderVars, metadataVars, persistVars, leverageVars, depthVars, peer, sharedMetadata>>
    /\ lastSummary' = NoSummary

SetWalletBalance(bal) ==
    /\ accountOtherState' = [accountOtherState EXCEPT !.balance = bal]
    /\ lastError' = "none"
    /\ UNCHANGED <<accountPositionState, lastPositionWrite>>
    /\ UNCHANGED <<orderVars, metadataVars, persistVars, leverageVars, depthVars, peer, sharedMetadata>>
    /\ lastSummary' = NoSummary

StorePreviousBalance ==
    /\ accountOtherState' = [accountOtherState EXCEPT !.previousBalance = getWalletBalance]
    /\ lastError' = "none"
    /\ UNCHANGED <<accountPositionState, lastPositionWrite>>
    /\ UNCHANGED <<orderVars, metadataVars, persistVars, leverageVars, depthVars, peer, sharedMetadata>>
    /\ lastSummary' = NoSummary

getSymbolLeverage(symbol) == ObjGet(accountLeverageState, symbol, Undefined)

getSymbolLeverageCache == accountLeverageState

SetSymbolLeverage(symbol, leverage) ==
    /\ accountLeverageState' = ObjSet(accountLeverageState, symbol, leverage)
    /\ lastError' = "none"
    /\ UNCHANGED <<positionVars, orderVars, metadataVars, persistVars, depthVars, peer, sharedMetadata>>
    /\ lastSummary' = NoSummary

\* ({...pos, leverage: this.getSymbolLeverage(pos.symbol)}): a copy, the stored position is not touched
withLeverage(pos) ==
    [symbol |-> pos.symbol, assetQty |-> pos.assetQty, positionPrice |-> pos.positionPrice,
     valueUpnl |-> pos.valueUpnl, marginValue |-> pos.marginValue,
     leverage |-> getSymbolLeverage(pos.symbol)]

\* the loop of getSessionSummary over the copies
RECURSIVE summaryLoop(_, _, _)
summaryLoop(positions, i, sums) ==
    IF i > Len(positions) THEN sums
    ELSE summaryLoop(positions, i + 1,
                     [activePositionUpnlSum |-> sums.activePositionUpnlSum + positions[i].valueUpnl,
                      quoteMarginLockedSum |-> sums.quoteMarginLockedSum + positions[i].marginValue])

\* a summary that takes the previous balance for the balance now
getSessionSummary_previousBalance(startingBalance) ==
    LET positions == [i \in 1..Len(getAllPositions) |-> withLeverage(getAllPositions[i])]
        sums == summaryLoop(positions, 1, [activePositionUpnlSum |-> 0, quoteMarginLockedSum |-> 0])
    IN [activePositions |-> positions,
        activePositionUpnlSum |-> sums.activePositionUpnlSum,
        account |->
            [quoteBalanceState |->
                 [startedWith |-> startingBalance,
                  now |-> getPreviousBalance,
                  quoteMarginLockedSum |-> sums.quoteMarginLockedSum,
                  nowInclLocked |-> startingBalance - sums.quoteMarginLockedSum,
                  nowIfEverythingClosedAtMarket |-> getPreviousBalance + sums.activePositionUpnlSum],
             pnlState |-> [realisedPnl |-> getPreviousBalance - startingBalance,
                           unrealisedPnl |-> sums.activePositionUpnlSum]]]

\* the value getSessionSummary returns
getSessionSummary(startingBalance) ==
    LET balanceNow == getWalletBalance
        positions == [i \in 1..Len(getAllPositions) |-> withLeverage(getAllPositions[i])]
        sums == summaryLoop(positions, 1, [activePositionUpnlSum |-> 0, quoteMarginLockedSum |-> 0])
        realisedPnl == balanceNow - startingBalance
    IN [activePositions |-> positions,
        activePositionUpnlSum |-> sums.activePositionUpnlSum,
        account |->
            [quoteBalanceState |->
                 [startedWith |-> startingBalance,
                  now |-> balanceNow,
                  quoteMarginLockedSum |-> sums.quoteMarginLockedSum,
                  nowInclLocked |-> startingBalance - sums.quoteMarginLockedSum,
                  nowIfEverythingClosedAtMarket |-> startingBalance + sums.activePositionUpnlSum],
             pnlState |-> [realisedPnl |-> realisedPnl,
                           unrealisedPnl |-> sums.activePositionUpnlSum]]]

\* a summary that writes the leverage into the stored positions instead of into copies
GetSessionSummary_annotatesInPlace(startingBalance) ==
    /\ lastSummary' = [startingBalance |-> startingBalance, summary |-> getSessionSummary(startingBalance)]
    /\ accountPositionState' =
           [j \in 1..Len(accountPositionState) |->
               [key |-> accountPositionState[j].key,
                value |-> [k \in 1..Len(accountPositionState[j].value) |->
                              LET e == accountPositionState[j].value[k]
                              IN [key |-> e.key,
                                  value |-> IF IsActive(e.value) THEN withLeverage(e.value) ELSE e.value]]]]
    /\ lastError' = "none"
    /\ UNCHANGED <<accountOtherState, lastPositionWrite>>
    /\ UNCHANGED <<orderVars, metadataVars, persistVars, leverageVars, depthVars, peer, sharedMetadata>>

GetSessionSummary(startingBalance) ==
    /\ lastSummary' = [startingBalance |-> startingBalance, summary |-> getSessionSummary(startingBalance)]
    /\ lastError' = "none"
    /\ UNCHANGED positionVars
    /\ UNCHANGED <<orderVars, metadataVars, persistVars, leverageVars, depthVars, peer, sharedMetadata>>

\* the positions a caller stores under a symbol before price events and summaries:
\* a long, a short or a closed one, with an entry price and a profit from an earlier price
ReportPositions(symbol) ==
    [symbol : {symbol}, assetQty : {-2, 0, 2}, positionPrice : {100}, valueUpnl : {50},
     marginValue : {200}]
\* the slots these positions go to
ReportSlots == {<<"X", "LONG">>, <<"X", "SHORT">>, <<"Y", "LONG">>}
ReportPrices == {90, 110}
WalletBalances == {0, 1200}
StartingBalances == {0, 1000}
Leverages == {5}

NextReports ==
    \/ \E sd \in ReportSlots : \E p \in ReportPositions(sd[1]) : SetActivePosition(sd[1], sd[2], p)
    \/ \E s \in Symbols, price \in ReportPrices : ProcessPriceEvent(s, price)
    \/ \E bal \in WalletBalances : SetWalletBalance(bal)
    \/ \E lev \in Leverages : SetSymbolLeverage("X", lev)
    \/ \E startingBalance \in StartingBalances : GetSessionSummary(startingBalance)

SpecReports == Init /\ [][NextReports]_vars

\* C13: processPriceEvent({symbol, price}) sets valueUpnl of the stored LONG position
\* and of the stored SHORT position of the symbol, each if it exists, to
\* assetQty * (price - positionPrice), whatever the side: a LONG with quantity 2 and
\* entry 100 at price 110 gets 20, a SHORT with quantity -2 and entry 100 gets -20.
C13_PriceEventSetsUpnl ==
    [][\A s \in Symbols, price \in ReportPrices :
          ProcessPriceEvent(s, price) =>
              \A d \in {"LONG", "SHORT"} :
                  LET before == getActivePosition(s, d)
                      after == getActivePosition(s, d)'
                  IN IF before = Undefined
                     THEN after = Undefined
                     ELSE /\ after.valueUpnl = before.assetQty * (price - before.positionPrice)
                          /\ (before.assetQty = 2 /\ before.positionPrice = 100 /\ price = 110)
                                 => after.valueUpnl = 20
                          /\ (before.assetQty = -2 /\ before.positionPrice = 100 /\ price = 110)
                                 => after.valueUpnl = -20]_vars

\* after a price event the long of X stands at 20 and the short of X at -20
C13_Witness ==
    /\ ObjHas(accountPositionState, "X")
    /\ getActivePosition("X", "LONG") # Undefined
    /\ getActivePosition("X", "SHORT") # Undefined
    /\ getActivePosition("X", "LONG").assetQty = 2
    /\ getActivePosition("X", "LONG").valueUpnl = 20
    /\ getActivePosition("X", "SHORT").assetQty = -2
    /\ getActivePosition("X", "SHORT").valueUpnl = -20

\* the sum of valueUpnl over a set of slots
RECURSIVE UpnlOver(_)
UpnlOver(slots) ==
    IF slots = {} THEN 0
    ELSE LET sd == CHOOSE x \in slots : TRUE
         IN SlotValue(sd).valueUpnl + UpnlOver(slots \ {sd})

\* C14: getSessionSummary(startingBalance) reports realisedPnl = wallet balance -
\* startingBalance, unrealisedPnl = the sum of valueUpnl over all active positions, and
\* nowIfEverythingClosedAtMarket = startingBalance + that sum, for every balance,
\* starting balance and stored positions, in the summary it returns (balance 1200,
\* start 1000, one active position with valueUpnl 50 give 200, 50 and 1050).
C14_SummaryNumbers ==
    /\ \A startingBalance \in StartingBalances :
          LET summary == getSessionSummary(startingBalance)
          IN /\ summary.account.pnlState.realisedPnl = getWalletBalance - startingBalance
             /\ summary.account.pnlState.unrealisedPnl = UpnlOver(ActiveSlots)
             /\ summary.account.quoteBalanceState.nowIfEverythingClosedAtMarket
                    = startingBalance + UpnlOver(ActiveSlots)
    /\ lastSummary # NoSummary =>
          /\ lastSummary.summary = getSessionSummary(lastSummary.startingBalance)
          /\ ( /\ getWalletBalance = 1200
               /\ lastSummary.startingBalance = 1000
               /\ Cardinality(ActiveSlots) = 1
               /\ \A sd \in ActiveSlots : SlotValue(sd).valueUpnl = 50 )
             => /\ lastSummary.summary.account.pnlState.realisedPnl = 200
                /\ lastSummary.summary.account.pnlState.unrealisedPnl = 50
                /\ lastSummary.summary.account.quoteBalanceState.nowIfEverythingClosedAtMarket = 1050

\* the summary of balance 1200 against start 1000 with one active position at 50,
\* next to a closed position that is stored but does not count
C14_Witness ==
    /\ lastSummary # NoSummary
    /\ lastSummary.startingBalance = 1000
    /\ lastSummary.summary.account.pnlState.realisedPnl = 200
    /\ lastSummary.summary.account.pnlState.unrealisedPnl = 50
    /\ Len(lastSummary.summary.activePositions) = 1
    /\ \E sd \in Slots : SlotValue(sd) # Undefined /\ SlotValue(sd).assetQty = 0

\* ================================================================ the other account state
\* a debt, an empty wallet and a funded one
Amounts == {-50, 0, 1200}

\* the operations that write accountOtherState, and the positions the hedged count is of
NextAccountOther ==
    \/ \E d \in HedgeSides, p \in Positions : SetActivePosition("X", d, p)
    \/ \E d \in HedgeSides : DeleteActivePosition("X", d)
    \/ GetTotalActivePositions
    \/ \E bal \in Amounts : SetWalletBalance(bal)
    \/ StorePreviousBalance

SpecAccountOther == Init /\ [][NextAccountOther]_vars

\* C25: getTotalHedgedPositions returns the totalHedged of the latest
\* getTotalActivePositions call, 0 before the first: that call sets the value, and
\* every other operation leaves it as it is.
C25_HedgedCountIsCached ==
    /\ getTotalHedgedPositions = 0
    /\ [][/\ GetTotalActivePositions =>
                getTotalHedgedPositions' = getTotalActivePositions.totalHedged
          /\ ~GetTotalActivePositions => getTotalHedgedPositions' = getTotalHedgedPositions]_vars

\* the cached count is 1 while no symbol is hedged any more, with a balance set and
\* stored since
C25_Witness ==
    /\ getTotalHedgedPositions = 1
    /\ getTotalActivePositions.totalHedged = 0
    /\ getWalletBalance = 1200
    /\ getPreviousBalance = 1200

\* C26: setWalletBalance takes every amount, a negative or zero one too, without an
\* error, getWalletBalance returns that amount after it, and no other operation
\* changes what getWalletBalance returns.
C26_WalletBalanceIsLastSet ==
    [][/\ \A bal \in Amounts :
             SetWalletBalance(bal) => getWalletBalance' = bal /\ lastError' = "none"
       /\ (\A bal \in Amounts : ~SetWalletBalance(bal)) => getWalletBalance' = getWalletBalance]_vars

\* a negative balance was set after a positive one was stored as the previous balance
C26_Witness ==
    /\ getWalletBalance = -50
    /\ getPreviousBalance = 1200
    /\ lastError = "none"

\* C27: getPreviousBalance returns the wallet balance of the moment of the latest
\* storePreviousBalance call, 0 before the first: that call copies the balance, and
\* setWalletBalance and every other operation leave the previous balance as it is.
C27_PreviousBalanceIsLastStored ==
    /\ getPreviousBalance = 0
    /\ [][/\ StorePreviousBalance => getPreviousBalance' = getWalletBalance
          /\ ~StorePreviousBalance => getPreviousBalance' = getPreviousBalance
          /\ \A bal \in Amounts :
                SetWalletBalance(bal) =>
                    getWalletBalance' = bal /\ getPreviousBalance' = getPreviousBalance]_vars

\* the balance moved on twice since it was stored, to zero at last
C27_Witness ==
    /\ getPreviousBalance = -50
    /\ getWalletBalance = 0
    /\ getTotalHedgedPositions = 1

\* ================================================================ hedge-mode leverage
\* the store variant that keeps a leverage per symbol and order side: an entry of
\* accountLeverageState is a record of a buy and a sell leverage
hedgeGetSymbolLeverage(symbol) == ObjGet(accountLeverageState, symbol, Undefined)

\* this.accountLeverageState[symbol]?.[side]
getSymbolSideLeverage(symbol, side) ==
    IF ObjHas(accountLeverageState, symbol)
    THEN ObjGet(accountLeverageState, symbol, Undefined)[side]
    ELSE Undefined

HedgeSetSymbolLeverage(symbol, leverage) ==
    /\ accountLeverageState' = ObjSet(accountLeverageState, symbol, [buy |-> leverage, sell |-> leverage])
    /\ lastError' = "none"
    /\ UNCHANGED <<positionVars, orderVars, metadataVars, persistVars, depthVars, peer, sharedMetadata>>
    /\ lastSummary' = NoSummary

\* a setter that writes the leverage to both sides of an entry it finds
SetSymbolSideLeverage_bothSides(symbol, side, leverage) ==
    /\ accountLeverageState' = ObjSet(accountLeverageState, symbol, [buy |-> leverage, sell |-> leverage])
    /\ lastError' = "none"
    /\ UNCHANGED <<positionVars, orderVars, metadataVars, persistVars, depthVars, peer, sharedMetadata>>
    /\ lastSummary' = NoSummary

SetSymbolSideLeverage(symbol, side, leverage) ==
    /\ IF ~ObjHas(accountLeverageState, symbol)
       THEN accountLeverageState' =
                ObjSet(accountLeverageState, symbol, [buy |-> leverage, sell |-> leverage])
       ELSE accountLeverageState' =
                ObjSet(accountLeverageState, symbol,
                       [ObjGet(accountLeverageState, symbol, Undefined) EXCEPT ![side] = leverage])
    /\ lastError' = "none"
    /\ UNCHANGED <<positionVars, orderVars, metadataVars, persistVars, depthVars, peer, sharedMetadata>>
    /\ lastSummary' = NoSummary

OrderSides == {"buy", "sell"}

HedgeLeverages == {1, 5, 10}

NextHedgeLeverage ==
    \/ \E s \in Symbols, v \in HedgeLeverages : HedgeSetSymbolLeverage(s, v)
    \/ \E s \in Symbols, side \in OrderSides, v \in HedgeLeverages : SetSymbolSideLeverage(s, side, v)

SpecHedgeLeverage == Init /\ [][NextHedgeLeverage]_vars

\* C28: in the hedge-mode store, setSymbolSideLeverage sets both sides to v for a
\* symbol without a leverage entry, and for a symbol with one sets the named side
\* and leaves the other side as it is; setSymbolLeverage sets both sides to v; the
\* leverage of every other symbol stays as it is.
C28_SideLeverage ==
    [][/\ \A s \in Symbols, side \in OrderSides, v \in HedgeLeverages :
             SetSymbolSideLeverage(s, side, v) =>
                 /\ getSymbolSideLeverage(s, side)' = v
                 /\ \A other \in OrderSides \ {side} :
                       getSymbolSideLeverage(s, other)' =
                           IF ObjHas(accountLeverageState, s)
                           THEN getSymbolSideLeverage(s, other) ELSE v
                 /\ \A o \in Symbols \ {s} : hedgeGetSymbolLeverage(o)' = hedgeGetSymbolLeverage(o)
       /\ \A s \in Symbols, v \in HedgeLeverages :
             HedgeSetSymbolLeverage(s, v) =>
                 /\ hedgeGetSymbolLeverage(s)' = [buy |-> v, sell |-> v]
                 /\ \A o \in Symbols \ {s} : hedgeGetSymbolLeverage(o)' = hedgeGetSymbolLeverage(o)]_vars

\* X got its sell leverage after its entry, Y its entry from a setter of one side
C28_Witness ==
    /\ ObjHas(accountLeverageState, "X") /\ ObjHas(accountLeverageState, "Y")
    /\ hedgeGetSymbolLeverage("X") = [buy |-> 5, sell |-> 10]
    /\ hedgeGetSymbolLeverage("Y") = [buy |-> 1, sell |-> 1]

\* ================================================================ orders
LiveStatuses == {"NEW", "PARTIALLY_FILLED"}

getOrders == ObjValues(accountOrders)

getActiveOrders == SelectSeq(getOrders, LAMBDA order : order.status \in LiveStatuses)

getOrder(orderId) == ObjGet(accountOrders, orderId, Undefined)

\* history kept next to an upsert: the order, and whether the upsert before it
\* (for the same id, with no delete in between) carried a terminal status
Upserted(order) ==
    [order |-> order,
     afterTerminal |-> /\ lastUpsert[order.exchangeOrderId] # NoOrder
                       /\ lastUpsert[order.exchangeOrderId].order.status \notin LiveStatuses]

\* an upsert that stores whatever status it is given
UpsertActiveOrder_storeAny(order) ==
    /\ accountOrders' = ObjSet(accountOrders, order.exchangeOrderId, order)
    /\ lastUpsert' = [lastUpsert EXCEPT ![order.exchangeOrderId] = Upserted(order)]
    /\ lastError' = "none"
    /\ UNCHANGED <<positionVars, metadataVars, persistVars, leverageVars, depthVars, peer, sharedMetadata>>
    /\ lastSummary' = NoSummary

\* an upsert that inserts a live order but never overwrites a stored one
UpsertActiveOrder_insertOnly(order) ==
    /\ IF order.status = "NEW" \/ order.status = "PARTIALLY_FILLED"
       THEN accountOrders' = IF ObjHas(accountOrders, order.exchangeOrderId)
                             THEN accountOrders
                             ELSE ObjSet(accountOrders, order.exchangeOrderId, order)
       ELSE accountOrders' = accountOrders
    /\ lastUpsert' = [lastUpsert EXCEPT ![order.exchangeOrderId] = Upserted(order)]
    /\ lastError' = "none"
    /\ UNCHANGED <<positionVars, metadataVars, persistVars, leverageVars, depthVars, peer, sharedMetadata>>
    /\ lastSummary' = NoSummary

\* an upsert whose terminal branch clears the map instead of deleting one id
UpsertActiveOrder_clearOnTerminal(order) ==
    /\ IF order.status = "NEW" \/ order.status = "PARTIALLY_FILLED"
       THEN accountOrders' = ObjSet(accountOrders, order.exchangeOrderId, order)
       ELSE accountOrders' = <<>>
    /\ lastUpsert' = [lastUpsert EXCEPT ![order.exchangeOrderId] = Upserted(order)]
    /\ lastError' = "none"
    /\ UNCHANGED <<positionVars, metadataVars, persistVars, leverageVars, depthVars, peer, sharedMetadata>>
    /\ lastSummary' = NoSummary

UpsertActiveOrder(order) ==
    /\ IF order.status = "NEW" \/ order.status = "PARTIALLY_FILLED"
       THEN accountOrders' = ObjSet(accountOrders, order.exchangeOrderId, order)
       ELSE accountOrders' = ObjDelete(accountOrders, order.exchangeOrderId)
    /\ lastUpsert' = [lastUpsert EXCEPT ![order.exchangeOrderId] = Upserted(order)]
    /\ lastError' = "none"
    /\ UNCHANGED <<positionVars, metadataVars, persistVars, leverageVars, depthVars, peer, sharedMetadata>>
    /\ lastSummary' = NoSummary

DeleteOrder(orderId) ==
    /\ accountOrders' = ObjDelete(accountOrders, orderId)
    /\ lastUpsert' = [lastUpsert EXCEPT ![orderId] = NoOrder]
    /\ lastError' = "none"
    /\ UNCHANGED <<positionVars, metadataVars, persistVars, leverageVars, depthVars, peer, sharedMetadata>>
    /\ lastSummary' = NoSummary

ClearAllOrders ==
    /\ accountOrders' = <<>>
    /\ lastUpsert' = [id \in OrderIds |-> NoOrder]
    /\ lastError' = "none"
    /\ UNCHANGED <<positionVars, metadataVars, persistVars, leverageVars, depthVars, peer, sharedMetadata>>
    /\ lastSummary' = NoSummary

NextOrders ==
    \/ \E order \in Orders : UpsertActiveOrder(order)
    \/ \E id \in OrderIds : DeleteOrder(id)
    \/ ClearAllOrders

SpecOrders == Init /\ [][NextOrders]_vars

\* C2: every order getOrders returns has status NEW or PARTIALLY_FILLED, so
\* getActiveOrders returns the same orders as getOrders.
C2_OnlyLiveOrdersStored ==
    /\ \A i \in 1..Len(getOrders) : getOrders[i].status \in LiveStatuses
    /\ getActiveOrders = getOrders

\* both ids are stored, one of them again after a terminal upsert had removed it
C2_Witness ==
    /\ Len(getOrders) = 2
    /\ \E id \in OrderIds : lastUpsert[id] # NoOrder /\ lastUpsert[id].afterTerminal

\* C9: what is stored under an order id is decided by the latest upsert of that id
\* alone: getOrder returns that order if its status is NEW or PARTIALLY_FILLED and
\* undefined otherwise, also when a PARTIALLY_FILLED follows a FILLED.
C9_LastUpsertDecides ==
    \A id \in OrderIds :
        lastUpsert[id] # NoOrder =>
            getOrder(id) = IF lastUpsert[id].order.status \in LiveStatuses
                           THEN lastUpsert[id].order
                           ELSE Undefined

\* o1 is stored as PARTIALLY_FILLED by an upsert that followed a terminal one
C9_Witness ==
    /\ lastUpsert["o1"] # NoOrder
    /\ lastUpsert["o1"].afterTerminal
    /\ lastUpsert["o1"].order.status = "PARTIALLY_FILLED"
    /\ getOrder("o1") = lastUpsert["o1"].order

\* C10: an upsert with a status other than NEW and PARTIALLY_FILLED leaves the id
\* absent from getOrders, stored before or not, and every other stored order as
\* it was.
C10_TerminalUpsertRemovesOnlyThatId ==
    [][\A order \in Orders :
          (order.status \notin LiveStatuses /\ UpsertActiveOrder(order)) =>
              /\ \A i \in 1..Len(getOrders') : getOrders'[i].exchangeOrderId # order.exchangeOrderId
              /\ accountOrders' = ObjDelete(accountOrders, order.exchangeOrderId)]_vars

\* o1 was upserted as FILLED and is gone, o2 is still stored
C10_Witness ==
    /\ lastUpsert["o1"] # NoOrder
    /\ lastUpsert["o1"].order.status = "FILLED"
    /\ getOrder("o1") = Undefined
    /\ getOrder("o2") # Undefined

\* ================================================================ sorted order queries
\* a comparator that looks at the price for every query
comparison_byPrice(query, a, b) == a.price - b.price

\* the comparator of a sorted query before the direction is applied; localeCompare on
\* the ids and symbols of the model is their alphabetical order
comparison(query, a, b) ==
    LET localeCompare(x, y) ==
            IF x = y THEN 0
            ELSE IF <<x, y>> \in {<<"o1", "o2">>, <<"o1", "o3">>, <<"o2", "o3">>, <<"X", "Y">>}
                 THEN -1 ELSE 1
    IN CASE query = "getOrdersSortedById" -> localeCompare(a.exchangeOrderId, b.exchangeOrderId)
         [] query = "getOrdersSortedBySymbol" -> localeCompare(a.symbol, b.symbol)
         [] query = "getOrdersSortedByTimestamp" -> a.createdAtMs - b.createdAtMs
         [] OTHER -> a.price - b.price

\* Array.prototype.sort with the comparator of the query: stable, the element at the
\* head goes behind the elements it compares greater than
RECURSIVE sort(_, _, _)
sort(array, query, ascending) ==
    IF Len(array) <= 1 THEN array
    ELSE LET rest == sort(Tail(array), query, ascending)
             compare(x, y) == IF ascending THEN comparison(query, x, y) ELSE -comparison(query, x, y)
             n == Cardinality({i \in 1..Len(rest) : compare(Head(array), rest[i]) > 0})
         IN SubSeq(rest, 1, n) \o <<Head(array)>> \o SubSeq(rest, n + 1, Len(rest))

SortedQueries ==
    {"getOrdersSortedById", "getOrdersSortedBySymbol", "getOrdersSortedByPrice",
     "getOrdersForSymbolSortedByPrice", "getOrdersForSymbolSideSortedByPrice",
     "getOrdersSortedByTimestamp"}

\* what the sorted query of that name returns: the array getOrders() builds, filtered
\* by getOrdersForSymbol or getOrdersForSymbolSide where the query does, then sorted
sortedQuery(query, symbol, side, ascending) ==
    sort(CASE query = "getOrdersForSymbolSortedByPrice" ->
                  SelectSeq(getOrders, LAMBDA order : order.symbol = symbol)
           [] query = "getOrdersForSymbolSideSortedByPrice" ->
                  SelectSeq(getOrders, LAMBDA order : order.symbol = symbol /\ order.orderSide = side)
           [] OTHER -> getOrders,
         query, ascending)

\* a sorted query that sorts the entries of the map itself
SortedQuery_sortsTheMap(query, symbol, side, ascending) ==
    /\ LET sorted == sort(getOrders, query, ascending)
       IN accountOrders' = [i \in 1..Len(sorted) |->
                               [key |-> sorted[i].exchangeOrderId, value |-> sorted[i]]]
    /\ lastError' = "none"
    /\ UNCHANGED lastUpsert
    /\ UNCHANGED <<positionVars, metadataVars, persistVars, leverageVars, depthVars, peer, sharedMetadata>>
    /\ lastSummary' = NoSummary

\* the query sorts an array made for it by Array.from or filter
SortedQuery(query, symbol, side, ascending) ==
    /\ lastError' = "none"
    /\ UNCHANGED orderVars
    /\ UNCHANGED <<positionVars, metadataVars, persistVars, leverageVars, depthVars, peer, sharedMetadata>>
    /\ lastSummary' = NoSummary

\* live orders that differ in every sort key
SortOrders ==
    [exchangeOrderId : OrderIds, status : {"NEW"}, price : 1..MaxPrice, symbol : Symbols,
     orderSide : {"BUY", "SELL"}, createdAtMs : {1, 2}]

NextOrderQueries ==
    \/ \E order \in SortOrders : UpsertActiveOrder(order)
    \/ \E orderId \in OrderIds : DeleteOrder(orderId)
    \/ \E query \in SortedQueries, symbol \in Symbols, side \in {"BUY", "SELL"}, ascending \in BOOLEAN :
           SortedQuery(query, symbol, side, ascending)

SpecOrderQueries == Init /\ [][NextOrderQueries]_vars

\* C23: a sorted or filtered order query, in either direction, does not mutate the
\* store: getOrders() returns after it the orders it returned before it, in the same
\* order.
C23_SortedQueriesMutateNothing ==
    [][\A query \in SortedQueries, symbol \in Symbols, side \in {"BUY", "SELL"}, ascending \in BOOLEAN :
          SortedQuery(query, symbol, side, ascending) =>
              /\ getOrders' = getOrders
              /\ accountOrders' = accountOrders]_vars

\* two orders of one symbol and side that the ascending queries return in the reverse
\* of the order getOrders() returns them in, and the query by symbol, a tie, as stored
C23_Witness ==
    /\ Len(getOrders) = 2
    /\ getOrders[1].symbol = "X" /\ getOrders[2].symbol = "X"
    /\ getOrders[1].orderSide = "BUY" /\ getOrders[2].orderSide = "BUY"
    /\ \A query \in SortedQueries \ {"getOrdersSortedBySymbol"} :
          /\ sortedQuery(query, "X", "BUY", TRUE) = <<getOrders[2], getOrders[1]>>
          /\ sortedQuery(query, "X", "BUY", FALSE) = getOrders
    /\ sortedQuery("getOrdersSortedBySymbol", "X", "BUY", TRUE) = getOrders
    /\ sortedQuery("getOrdersForSymbolSortedByPrice", "Y", "BUY", TRUE) = <<>>

\* ---------------------------------------------------------------- stores of three orders
\* three live orders, o3 the one to sell, in every order of insertion
OrderArrays ==
    LET three == [exchangeOrderId : {"o1", "o2", "o3"}, status : {"NEW"}, price : {1, 2},
                  symbol : Symbols, orderSide : {"BUY", "SELL"}, createdAtMs : {1, 2}]
        live == {o \in three : o.orderSide = (IF o.exchangeOrderId = "o3" THEN "SELL" ELSE "BUY")}
    IN {<<[key |-> a.exchangeOrderId, value |-> a], [key |-> b.exchangeOrderId, value |-> b],
          [key |-> c.exchangeOrderId, value |-> c]>> :
            <<a, b, c>> \in {t \in live \X live \X live :
                                Cardinality({t[1].exchangeOrderId, t[2].exchangeOrderId,
                                             t[3].exchangeOrderId}) = 3}}

\* a store after three upserts
InitOrderArrays ==
    InitButOrders /\ accountOrders \in OrderArrays /\ redisData = NoData /\ depthInput = NoReport

SpecSortedArrays ==
    InitOrderArrays /\ [][\E query \in SortedQueries, symbol \in Symbols, side \in {"BUY", "SELL"}, ascending \in BOOLEAN : SortedQuery(query, symbol, side, ascending)]_vars

\* the key a query is to order by, as a number: ids and symbols by their place in
\* the alphabet
sortKey(query, order) ==
    LET place(x) == CASE x \in {"o1", "X"} -> 1 [] x \in {"o2", "Y"} -> 2 [] OTHER -> 3
    IN CASE query = "getOrdersSortedById" -> place(order.exchangeOrderId)
         [] query = "getOrdersSortedBySymbol" -> place(order.symbol)
         [] query = "getOrdersSortedByTimestamp" -> order.createdAtMs
         [] OTHER -> order.price

\* the orders a query is to sort
sortedOrders(query, symbol, side) ==
    {getOrders[i] : i \in {j \in 1..Len(getOrders) :
        /\ query \in {"getOrdersForSymbolSortedByPrice", "getOrdersForSymbolSideSortedByPrice"}
              => getOrders[j].symbol = symbol
        /\ query = "getOrdersForSymbolSideSortedByPrice" => getOrders[j].orderSide = side}}

\* C37: each sorted query returns a permutation of the orders it sorts (all orders,
\* or those of the symbol, or of the symbol and side), non-decreasing in its key
\* (price, order id, symbol, creation time) when the flag is true and
\* non-increasing when it is false.
C37_SortedQueriesAreSorted ==
    \A query \in SortedQueries, symbol \in Symbols, side \in {"BUY", "SELL"}, ascending \in BOOLEAN :
        LET result == sortedQuery(query, symbol, side, ascending)
        IN /\ Len(result) = Cardinality(sortedOrders(query, symbol, side))
           /\ {result[i] : i \in 1..Len(result)} = sortedOrders(query, symbol, side)
           /\ \A i, j \in 1..Len(result) :
                 i < j => IF ascending
                          THEN sortKey(query, result[i]) <= sortKey(query, result[j])
                          ELSE sortKey(query, result[i]) >= sortKey(query, result[j])

\* three orders stored by falling price whose ids, symbols and times are in no order:
\* by price the ascending query returns them reversed
C37_Witness ==
    /\ Len(getOrders) = 3
    /\ <<getOrders[1].exchangeOrderId, getOrders[2].exchangeOrderId, getOrders[3].exchangeOrderId>>
           = <<"o2", "o3", "o1">>
    /\ <<getOrders[1].price, getOrders[2].price, getOrders[3].price>> = <<2, 2, 1>>
    /\ <<getOrders[1].symbol, getOrders[2].symbol, getOrders[3].symbol>> = <<"Y", "X", "Y">>
    /\ sortedQuery("getOrdersSortedByPrice", "X", "BUY", TRUE) = <<getOrders[3], getOrders[1], getOrders[2]>>
    /\ sortedQuery("getOrdersSortedById", "X", "BUY", TRUE) = <<getOrders[3], getOrders[1], getOrders[2]>>
    /\ sortedQuery("getOrdersSortedById", "X", "BUY", FALSE) = <<getOrders[2], getOrders[1], getOrders[3]>>
    /\ sortedQuery("getOrdersForSymbolSortedByPrice", "Y", "BUY", FALSE) = <<getOrders[1], getOrders[3]>>

\* ================================================================ metadata
isPendingPersist == isPendingPersistPositionMetadata

\* a getter that builds a table of the symbols with a truthy leaderId
getAllSymbolMetadata_truthyLeaders ==
    SelectSeq(accountPositionMetadata, LAMBDA e : e.value["leaderId"] # 0)

getAllSymbolMetadata == accountPositionMetadata

GetAllSymbolMetadata ==
    /\ lastError' = "none"
    /\ UNCHANGED metadataVars
    /\ UNCHANGED <<positionVars, orderVars, persistVars, leverageVars, depthVars, peer, sharedMetadata>>
    /\ lastSummary' = NoSummary

getSymbolsWithMetadata == ObjKeys(accountPositionMetadata)

getSymbolMetadata(symbol) == ObjGet(accountPositionMetadata, symbol, Undefined)

SetIsPendingPersist(value) ==
    /\ isPendingPersistPositionMetadata' = value
    /\ lastError' = "none"
    /\ UNCHANGED accountPositionMetadata
    /\ UNCHANGED <<positionVars, orderVars, persistVars, leverageVars, depthVars, peer, sharedMetadata>>
    /\ lastSummary' = NoSummary

\* a bulk overwrite that takes the table for persisted and lowers the flag
SetAllSymbolMetadata_lowersFlag(data) ==
    /\ accountPositionMetadata' = data
    /\ isPendingPersistPositionMetadata' = FALSE
    /\ peer' = IF peer.sharesTable
               THEN [peer EXCEPT !.sharesTable = FALSE,
                                 !.accountPositionMetadata = accountPositionMetadata]
               ELSE peer
    /\ sharedMetadata' = {}
    /\ lastError' = "none"
    /\ UNCHANGED <<positionVars, orderVars, persistVars, leverageVars, depthVars>>
    /\ lastSummary' = NoSummary

\* the field now refers to the table passed in; an instance that referred to the
\* table the field held before keeps that table
SetAllSymbolMetadata(data) ==
    /\ accountPositionMetadata' = data
    /\ peer' = IF peer.sharesTable
               THEN [peer EXCEPT !.sharesTable = FALSE,
                                 !.accountPositionMetadata = accountPositionMetadata]
               ELSE peer
    /\ sharedMetadata' = {}
    /\ lastError' = "none"
    /\ UNCHANGED isPendingPersistPositionMetadata
    /\ UNCHANGED <<positionVars, orderVars, persistVars, leverageVars, depthVars>>
    /\ lastSummary' = NoSummary

\* the symbols that stay one object when the entry of symbol is assigned or deleted
Unshared(symbol) ==
    IF Cardinality(sharedMetadata \ {symbol}) < 2 THEN {} ELSE sharedMetadata \ {symbol}

\* the symbols whose entries are the object that is the entry of symbol
sharedWith(symbol) == IF symbol \in sharedMetadata THEN sharedMetadata ELSE {symbol}

\* data is an object of the caller that no other entry of the table refers to
SetSymbolMetadata(symbol, data) ==
    /\ accountPositionMetadata' = ObjSet(accountPositionMetadata, symbol, data)
    /\ sharedMetadata' = Unshared(symbol)
    /\ isPendingPersistPositionMetadata' = TRUE
    /\ lastError' = "none"
    /\ UNCHANGED <<positionVars, orderVars, persistVars, leverageVars, depthVars, peer>>
    /\ lastSummary' = NoSummary

DeletePositionMetadata(symbol) ==
    /\ accountPositionMetadata' = ObjDelete(accountPositionMetadata, symbol)
    /\ sharedMetadata' = Unshared(symbol)
    /\ isPendingPersistPositionMetadata' = TRUE
    /\ lastError' = "none"
    /\ UNCHANGED <<positionVars, orderVars, persistVars, leverageVars, depthVars, peer>>
    /\ lastSummary' = NoSummary

\* an update that creates the metadata of a symbol that has none
SetSymbolMetadataValue_autoCreate(symbol, key, newValue) ==
    /\ accountPositionMetadata' =
           ObjSet(accountPositionMetadata, symbol,
                  [ObjGet(accountPositionMetadata, symbol, [k \in MetaKeys |-> 0]) EXCEPT ![key] = newValue])
    /\ isPendingPersistPositionMetadata' = TRUE
    /\ lastError' = "none"
    /\ UNCHANGED <<positionVars, orderVars, persistVars, leverageVars, depthVars, peer, sharedMetadata>>
    /\ lastSummary' = NoSummary

\* symbolMetadata[key] = newValue: an assignment to the object, which every entry that
\* refers to it shows
assignInPlace(table, symbols, key, newValue) ==
    [i \in 1..Len(table) |->
        IF table[i].key \in symbols THEN [table[i] EXCEPT !.value[key] = newValue] ELSE table[i]]

SetSymbolMetadataValue(symbol, key, newValue) ==
    /\ IF getSymbolMetadata(symbol) = Undefined
       THEN /\ lastError' = "Error"
            /\ UNCHANGED <<accountPositionMetadata, isPendingPersistPositionMetadata>>
       ELSE /\ accountPositionMetadata' =
                   assignInPlace(accountPositionMetadata, sharedWith(symbol), key, newValue)
            /\ isPendingPersistPositionMetadata' = TRUE
            /\ lastError' = "none"
    /\ UNCHANGED <<positionVars, orderVars, persistVars, leverageVars, depthVars, peer, sharedMetadata>>
    /\ lastSummary' = NoSummary

\* the metadata tables a caller can build over a set of symbols
RECURSIVE TablesOver(_)
TablesOver(symbols) ==
    {<<>>} \cup UNION { { Append(tbl, [key |-> s, value |-> m]) : tbl \in TablesOver(symbols \ {s}), m \in Metadata }
                        : s \in symbols }

NextMetadata ==
    \/ \E value \in BOOLEAN : SetIsPendingPersist(value)
    \/ \E data \in TablesOver(Symbols) : SetAllSymbolMetadata(data)
    \/ GetAllSymbolMetadata
    \/ \E s \in Symbols, data \in Metadata : SetSymbolMetadata(s, data)
    \/ \E s \in Symbols : DeletePositionMetadata(s)
    \/ \E s \in Symbols, k \in MetaKeys, v \in 0..MaxMetaVal : SetSymbolMetadataValue(s, k, v)

SpecMetadata == Init /\ [][NextMetadata]_vars

\* C3: every store operation that changes the metadata table (setSymbolMetadata,
\* setSymbolMetadataValue, deletePositionMetadata, setAllSymbolMetadata) leaves
\* isPendingPersist() true.
C3_MetadataChangeRaisesPending ==
    [][accountPositionMetadata' # accountPositionMetadata => isPendingPersist']_vars

\* C8: setSymbolMetadataValue on a symbol without metadata throws, creates no entry
\* for the symbol, and leaves the metadata table and isPendingPersist() as they were.
C8_ValueOnMissingMetadataThrows ==
    [][\A s \in Symbols, k \in MetaKeys, v \in 0..MaxMetaVal :
          (getSymbolMetadata(s) = Undefined /\ SetSymbolMetadataValue(s, k, v)) =>
              /\ lastError' = "Error"
              /\ ~ObjHas(accountPositionMetadata', s)
              /\ accountPositionMetadata' = accountPositionMetadata
              /\ isPendingPersist' = isPendingPersist]_vars

\* the call threw on X, whose metadata had been set and deleted (the flag is up),
\* while Y keeps its metadata
C8_Witness ==
    /\ lastError = "Error"
    /\ isPendingPersist
    /\ getSymbolMetadata("X") = Undefined
    /\ getSymbolMetadata("Y") # Undefined

\* C20: setAllSymbolMetadata(getAllSymbolMetadata()) changes nothing a caller can read:
\* getSymbolMetadata of every symbol and getSymbolsWithMetadata() are after it what
\* they were before it; and getAllSymbolMetadata() by itself leaves the pending-persist
\* flag, and the table, as they were.
C20_RoundTripIsIdempotent ==
    [][ /\ SetAllSymbolMetadata(getAllSymbolMetadata) =>
            /\ \A s \in Symbols : getSymbolMetadata(s)' = getSymbolMetadata(s)
            /\ getSymbolsWithMetadata' = getSymbolsWithMetadata
            /\ getAllSymbolMetadata' = getAllSymbolMetadata
        /\ GetAllSymbolMetadata =>
            /\ isPendingPersist' = isPendingPersist
            /\ getAllSymbolMetadata' = getAllSymbolMetadata ]_vars

\* a table of two symbols, one with leaderId 0, behind a lowered flag: the round
\* trip and the getter lead from this state to this state
C20_Witness ==
    /\ getSymbolsWithMetadata = <<"Y", "X">>
    /\ getSymbolMetadata("Y")["leaderId"] = 0
    /\ getSymbolMetadata("X")["leaderId"] = 1
    /\ ~isPendingPersist
    /\ lastError = "none"

\* ---------------------------------------------------------------- one object, two symbols
\* setSymbolMetadata(symbol, getSymbolMetadata(other)), or a caller that passes one
\* object of defaults for both symbols: the table stores the reference it is given
ShareSymbolMetadata(symbol, other) ==
    /\ symbol # other
    /\ getSymbolMetadata(other) # Undefined
    /\ accountPositionMetadata' = ObjSet(accountPositionMetadata, symbol, getSymbolMetadata(other))
    /\ sharedMetadata' = sharedWith(other) \cup {symbol}
    /\ isPendingPersistPositionMetadata' = TRUE
    /\ lastError' = "none"
    /\ UNCHANGED <<positionVars, orderVars, persistVars, leverageVars, depthVars, peer>>
    /\ lastSummary' = NoSummary

NextSharedMetadata ==
    \/ \E s \in Symbols, data \in Metadata : SetSymbolMetadata(s, data)
    \/ \E s \in Symbols, o \in Symbols : ShareSymbolMetadata(s, o)
    \/ \E value \in BOOLEAN : SetIsPendingPersist(value)
    \/ \E s \in Symbols : DeletePositionMetadata(s)
    \/ \E s \in Symbols, k \in MetaKeys, v \in 0..MaxMetaVal : SetSymbolMetadataValue(s, k, v)

SpecSharedMetadata == Init /\ [][NextSharedMetadata]_vars

\* C35: setSymbolMetadataValue(symbol, key, value) on a symbol with metadata sets
\* that key of that symbol's metadata to value and raises the flag; every other key
\* of that metadata, the metadata of every other symbol and getSymbolsWithMetadata()
\* are what they were.
C35_ValueChangesOneKey ==
    [][\A s \in Symbols, k \in MetaKeys, v \in 0..MaxMetaVal :
          (getSymbolMetadata(s) # Undefined /\ SetSymbolMetadataValue(s, k, v)) =>
              /\ getSymbolMetadata(s)' = [getSymbolMetadata(s) EXCEPT ![k] = v]
              /\ isPendingPersist'
              /\ lastError' = "none"
              /\ \A o \in Symbols \ {s} : getSymbolMetadata(o)' = getSymbolMetadata(o)
              /\ getSymbolsWithMetadata' = getSymbolsWithMetadata]_vars

\* ================================================================ two instances
\* The second instance holds a reference to a table: to a table of its own, or, once
\* it was handed the table of the first instance, to that very object.
peerGetAllSymbolMetadata ==
    IF peer.sharesTable THEN accountPositionMetadata ELSE peer.accountPositionMetadata

\* peer.setAllSymbolMetadata(store.getAllSymbolMetadata())
PeerSetAllSymbolMetadata ==
    /\ peer' = [peer EXCEPT !.sharesTable = TRUE, !.accountPositionMetadata = <<>>]
    /\ lastError' = "none"
    /\ UNCHANGED <<metadataVars, sharedMetadata>>
    /\ UNCHANGED <<positionVars, orderVars, persistVars, leverageVars, depthVars>>
    /\ lastSummary' = NoSummary

\* peer.setSymbolMetadata(symbol, data): an assignment into the table the peer refers to
PeerSetSymbolMetadata(symbol, data) ==
    /\ IF peer.sharesTable
       THEN /\ accountPositionMetadata' = ObjSet(accountPositionMetadata, symbol, data)
            /\ sharedMetadata' = Unshared(symbol)
            /\ peer' = [peer EXCEPT !.isPendingPersistPositionMetadata = TRUE]
       ELSE /\ peer' = [peer EXCEPT !.accountPositionMetadata = ObjSet(@, symbol, data),
                                    !.isPendingPersistPositionMetadata = TRUE]
            /\ UNCHANGED <<accountPositionMetadata, sharedMetadata>>
    /\ lastError' = "none"
    /\ UNCHANGED isPendingPersistPositionMetadata
    /\ UNCHANGED <<positionVars, orderVars, persistVars, leverageVars, depthVars>>
    /\ lastSummary' = NoSummary

NextTwoStores ==
    \/ \E s \in Symbols, data \in Metadata : SetSymbolMetadata(s, data)
    \/ \E s \in Symbols : DeletePositionMetadata(s)
    \/ SetAllSymbolMetadata(<<>>)
    \/ \E value \in BOOLEAN : SetIsPendingPersist(value)
    \/ PeerSetAllSymbolMetadata
    \/ \E s \in Symbols, data \in Metadata : PeerSetSymbolMetadata(s, data)

SpecTwoStores == Init /\ [][NextTwoStores]_vars

\* C22: two store instances are independent: also after one was handed the result
\* of the other's getAllSymbolMetadata(), a mutating operation on one changes no
\* query result and not the pending-persist flag of the other.
C22_StoresAreIndependent ==
    [][ /\ (\E s \in Symbols, data \in Metadata : PeerSetSymbolMetadata(s, data))
           => /\ getAllSymbolMetadata' = getAllSymbolMetadata
              /\ isPendingPersist' = isPendingPersist
        /\ ( \/ \E s \in Symbols, data \in Metadata : SetSymbolMetadata(s, data)
             \/ \E s \in Symbols : DeletePositionMetadata(s)
             \/ SetAllSymbolMetadata(<<>>) )
           => /\ peerGetAllSymbolMetadata' = peerGetAllSymbolMetadata
              /\ peer.isPendingPersistPositionMetadata' = peer.isPendingPersistPositionMetadata
      ]_vars

\* ================================================================ persistence
\* The callback of setInterval is async: each firing runs until its next await
\* and the timer may fire again while earlier firings are still awaiting.
\* timer[t] is the place of firing t:
\*   idle                not running
\*   fetch               awaiting fetchJSONForAccountKey, not yet served
\*   fetched, data       the backend has read the key, the result is on its way
\*   restored            restorePersistedData has returned, the callback resumes
\*   write, data         awaiting writeJSONForAccountKey of the snapshot data
\* A firing in "restored" is a queued microtask: the event loop runs no timer and
\* delivers no backend response before it has resumed; only code that is itself
\* a queued continuation (a caller's, or another restore's) can run before it.
WriteInFlight(t) == timer[t].pc = "write"

MicrotaskQueued == \E u \in 1..MaxTicks : timer[u].pc = "restored"

\* a callback that writes the table on every tick
PersistIfPending_always(t) ==
    /\ isPendingPersistPositionMetadata' = FALSE
    /\ timer' = [timer EXCEPT ![t] = [pc |-> "write", data |-> getAllSymbolMetadata]]

\* the callback from "if (!this.isPendingPersist())" on
PersistIfPending(t) ==
    IF ~isPendingPersist
    THEN /\ timer' = [timer EXCEPT ![t] = Idle]
         /\ UNCHANGED isPendingPersistPositionMetadata
    ELSE /\ isPendingPersistPositionMetadata' = FALSE
         /\ timer' = [timer EXCEPT ![t] = [pc |-> "write", data |-> getAllSymbolMetadata]]

\* the timer fires
Tick(t) ==
    /\ ~MicrotaskQueued
    /\ timer[t].pc = "idle"
    /\ IF ~didRestorePositionMetadata
       THEN /\ timer' = [timer EXCEPT ![t] = [pc |-> "fetch"]]
            /\ UNCHANGED isPendingPersistPositionMetadata
       ELSE PersistIfPending(t)
    /\ UNCHANGED <<accountPositionMetadata, didRestorePositionMetadata, redisData, writeOutcome>>
    /\ UNCHANGED <<positionVars, orderVars, leverageVars, depthVars, peer, sharedMetadata, lastError, lastSummary>>

\* the backend reads the key for a pending fetch
FetchServed(t) ==
    /\ ~MicrotaskQueued
    /\ timer[t].pc = "fetch"
    /\ timer' = [timer EXCEPT ![t] = [pc |-> "fetched", data |-> redisData]]
    /\ UNCHANGED <<metadataVars, didRestorePositionMetadata, redisData, writeOutcome>>
    /\ UNCHANGED <<positionVars, orderVars, leverageVars, depthVars, peer, sharedMetadata, lastError, lastSummary>>

\* a callback that catches the rejected fetch and goes on to the flag
FetchFails_carriesOn(t) ==
    /\ ~MicrotaskQueued
    /\ timer[t].pc \in {"fetch", "fetched"}
    /\ timer' = [timer EXCEPT ![t] = [pc |-> "restored"]]
    /\ UNCHANGED <<metadataVars, didRestorePositionMetadata, redisData, writeOutcome>>
    /\ UNCHANGED <<positionVars, orderVars, leverageVars, depthVars, peer, sharedMetadata, lastError, lastSummary>>

\* fetchJSONForAccountKey rejects: restorePersistedData and the callback end with it
FetchFails(t) ==
    /\ ~MicrotaskQueued
    /\ timer[t].pc \in {"fetch", "fetched"}
    /\ timer' = [timer EXCEPT ![t] = Idle]
    /\ UNCHANGED <<metadataVars, didRestorePositionMetadata, redisData, writeOutcome>>
    /\ UNCHANGED <<positionVars, orderVars, leverageVars, depthVars, peer, sharedMetadata, lastError, lastSummary>>

\* fetchJSONForAccountKey resolves: the rest of restorePersistedData
RestorePersistedData(t) ==
    /\ timer[t].pc = "fetched"
    /\ IF timer[t].data # NoData
       THEN accountPositionMetadata' = timer[t].data /\ sharedMetadata' = {}
       ELSE UNCHANGED <<accountPositionMetadata, sharedMetadata>>
    /\ didRestorePositionMetadata' = TRUE
    /\ timer' = [timer EXCEPT ![t] = [pc |-> "restored"]]
    /\ UNCHANGED <<isPendingPersistPositionMetadata, redisData, writeOutcome>>
    /\ UNCHANGED <<positionVars, orderVars, leverageVars, depthVars, peer, lastError, lastSummary>>

\* the callback resumes after "await this.restorePersistedData()"
AfterRestore(t) ==
    /\ timer[t].pc = "restored"
    /\ PersistIfPending(t)
    /\ UNCHANGED <<accountPositionMetadata, didRestorePositionMetadata, redisData, writeOutcome>>
    /\ UNCHANGED <<positionVars, orderVars, leverageVars, depthVars, peer, sharedMetadata, lastError, lastSummary>>

\* a success path that clears the flag once the write has completed
WriteSucceeds_clearsFlag(t) ==
    /\ ~MicrotaskQueued
    /\ WriteInFlight(t)
    /\ redisData' = timer[t].data
    /\ writeOutcome' = "saved"
    /\ timer' = [timer EXCEPT ![t] = Idle]
    /\ isPendingPersistPositionMetadata' = FALSE
    /\ UNCHANGED <<accountPositionMetadata, didRestorePositionMetadata>>
    /\ UNCHANGED <<positionVars, orderVars, leverageVars, depthVars, peer, sharedMetadata, lastError, lastSummary>>

\* writeJSONForAccountKey resolves
WriteSucceeds(t) ==
    /\ ~MicrotaskQueued
    /\ WriteInFlight(t)
    /\ redisData' = timer[t].data
    /\ writeOutcome' = "saved"
    /\ timer' = [timer EXCEPT ![t] = Idle]
    /\ UNCHANGED <<metadataVars, didRestorePositionMetadata>>
    /\ UNCHANGED <<positionVars, orderVars, leverageVars, depthVars, peer, sharedMetadata, lastError, lastSummary>>

\* a catch block that only logs
WriteFails_logsOnly(t) ==
    /\ ~MicrotaskQueued
    /\ WriteInFlight(t)
    /\ writeOutcome' = "failed"
    /\ timer' = [timer EXCEPT ![t] = Idle]
    /\ UNCHANGED <<metadataVars, didRestorePositionMetadata, redisData>>
    /\ UNCHANGED <<positionVars, orderVars, leverageVars, depthVars, peer, sharedMetadata, lastError, lastSummary>>

\* writeJSONForAccountKey throws or rejects: the catch block
WriteFails(t) ==
    /\ ~MicrotaskQueued
    /\ WriteInFlight(t)
    /\ isPendingPersistPositionMetadata' = TRUE
    /\ writeOutcome' = "failed"
    /\ timer' = [timer EXCEPT ![t] = Idle]
    /\ UNCHANGED <<accountPositionMetadata, didRestorePositionMetadata, redisData>>
    /\ UNCHANGED <<positionVars, orderVars, leverageVars, depthVars, peer, sharedMetadata, lastError, lastSummary>>

\* the metadata the persistence scenarios write
PersistMetadata == [leaderId : 0..MaxMetaVal, entryCount : {0}]

PersistTables ==
    {<<>>} \cup { <<[key |-> s, value |-> m]>> : s \in PersistSymbols, m \in PersistMetadata }

\* the backend may hold a table written by an earlier run
InitPersist == InitStore /\ redisData \in {NoData} \cup PersistTables /\ depthInput = NoReport

NextPersist ==
    \/ \E t \in 1..MaxTicks : Tick(t)
    \/ \E t \in 1..MaxTicks : FetchServed(t)
    \/ \E t \in 1..MaxTicks : FetchFails(t)
    \/ \E t \in 1..MaxTicks : RestorePersistedData(t)
    \/ \E t \in 1..MaxTicks : AfterRestore(t)
    \/ \E t \in 1..MaxTicks : WriteSucceeds(t)
    \/ \E t \in 1..MaxTicks : WriteFails(t)
    \/ \E s \in PersistSymbols, data \in PersistMetadata : SetSymbolMetadata(s, data)
    \/ \E s \in PersistSymbols : DeletePositionMetadata(s)
    \/ \E s \in PersistSymbols, v \in 0..MaxMetaVal : SetSymbolMetadataValue(s, "leaderId", v)

SpecPersist == InitPersist /\ [][NextPersist]_vars

NoWriteInFlight == \A t \in 1..MaxTicks : ~WriteInFlight(t)

\* C5: no update is lost: once restore has completed, whenever the flag is false
\* and no write is in flight, the table most recently written successfully to the
\* backend is the store's current metadata table.
C5_NoLostUpdate ==
    (didRestorePositionMetadata /\ ~isPendingPersist /\ NoWriteInFlight /\ writeOutcome = "saved")
        => redisData = accountPositionMetadata

C7_FailedWriteRaisesPending ==
    [][\A t \in 1..MaxTicks :
          (WriteInFlight(t) /\ timer'[t].pc = "idle" /\ writeOutcome' = "failed") =>
              /\ isPendingPersist'
              /\ redisData' = redisData
              /\ \A u \in 1..MaxTicks : timer'[u].pc = "write" => timer'[u] = timer[u]]_vars

\* a write has failed, the flag is up, and the write of another tick is in flight
C7_Witness ==
    /\ writeOutcome = "failed"
    /\ isPendingPersist
    /\ \E t \in 1..MaxTicks : WriteInFlight(t)

\* ---------------------------------------------------------------- retry
\* a step of a caller that writes metadata
MetadataMutation ==
    \E s \in PersistSymbols :
        \/ \E data \in PersistMetadata : SetSymbolMetadata(s, data)
        \/ DeletePositionMetadata(s)
        \/ \E v \in 0..MaxMetaVal : SetSymbolMetadataValue(s, "leaderId", v)

\* setInterval keeps firing and the callbacks resume; the backend serves a fetch and
\* completes a write in the end, however often it failed before
PersistFairness ==
    \A t \in 1..MaxTicks :
        /\ WF_vars(Tick(t))
        /\ SF_vars(FetchServed(t))
        /\ SF_vars(RestorePersistedData(t))
        /\ WF_vars(AfterRestore(t))
        /\ SF_vars(WriteSucceeds(t))

SpecPersistLive == InitPersist /\ [][NextPersist]_vars /\ PersistFairness

\* the backend holds the table of the store; a backend without the key holds what an
\* empty store has to save
BackendHoldsTable ==
    \/ redisData = accountPositionMetadata
    \/ redisData = NoData /\ accountPositionMetadata = <<>>

\* C31: after a failed write a later tick issues another write, and when ticks keep
\* firing, writes succeed in the end and the metadata mutations stop, the store
\* reaches and stays in a state where the flag is false and the backend holds the
\* store's metadata table.
C31_RetryReachesBackend ==
    /\ (writeOutcome = "failed" /\ isPendingPersist /\ NoWriteInFlight) ~> (\E t \in 1..MaxTicks : WriteInFlight(t))
    /\ <>[][~MetadataMutation]_vars => <>[](~isPendingPersist /\ BackendHoldsTable)

\* C32: a tick that reads the flag as false issues no write and leaves the flag
\* false; a write is issued only by a tick, and only by one that read the flag as
\* true.
C32_WriteOnlyWhenPending ==
    [][\A t \in 1..MaxTicks :
          /\ (~isPendingPersist /\ (Tick(t) \/ AfterRestore(t))) =>
                /\ ~isPendingPersist'
                /\ redisData' = redisData
                /\ \A u \in 1..MaxTicks : timer'[u].pc = "write" => timer'[u] = timer[u]
          /\ (~WriteInFlight(t) /\ timer'[t].pc = "write") =>
                isPendingPersist /\ (Tick(t) \/ AfterRestore(t))]_vars

\* the restore is done and its tick went by the flag, which was false: no write was
\* issued, while the backend holds a table of an earlier run
C32_Witness ==
    /\ didRestorePositionMetadata
    /\ ~isPendingPersist
    /\ \A t \in 1..MaxTicks : timer[t].pc = "idle"
    /\ writeOutcome = "none"
    /\ redisData # NoData /\ redisData # <<>>

\* C33: the job writes nothing to the backend before the persisted metadata was
\* restored: while didRestorePositionMetadata is false no write is in flight and
\* none has completed, whatever the order of ticks, fetch completions, fetch
\* failures and metadata mutations.
C33_NoWriteBeforeRestore ==
    ((\E t \in 1..MaxTicks : WriteInFlight(t)) \/ writeOutcome # "none")
        => didRestorePositionMetadata

\* the first write is in flight while the fetch of another tick is still unanswered
C33_Witness ==
    /\ \E t \in 1..MaxTicks : WriteInFlight(t)
    /\ \E u \in 1..MaxTicks : timer[u].pc = "fetch"
    /\ writeOutcome = "none"

\* C34: the persisted table is applied to the store at most once and discards no
\* local change: a restore that completes after another has completed leaves the
\* metadata table as it is, and no restore replaces metadata that was set locally.
C34_RestoreAppliedOnce ==
    [][\A t \in 1..MaxTicks :
          RestorePersistedData(t) =>
              /\ didRestorePositionMetadata => accountPositionMetadata' = accountPositionMetadata
              /\ accountPositionMetadata # <<>> => accountPositionMetadata' = accountPositionMetadata]_vars

\* ================================================================ the whole store
\* every operation of the store on one symbol, one side and one order id
StorePositions == {p \in ReportPositions("X") : p.assetQty >= 0}
StoreOrders == [exchangeOrderId : {"o1"}, status : {"NEW", "FILLED"}, price : {1}]

NextStore ==
    \/ GetActivePosition("X", "LONG")
    \/ \E p \in StorePositions : SetActivePosition("X", "LONG", p)
    \/ DeleteActivePosition("X", "LONG")
    \/ GetTotalActivePositions
    \/ GetAllPositions
    \/ ProcessPriceEvent("X", 110)
    \/ \E bal \in WalletBalances : SetWalletBalance(bal)
    \/ StorePreviousBalance
    \/ \E lev \in Leverages : SetSymbolLeverage("X", lev)
    \/ GetSessionSummary(1000)
    \/ \E order \in StoreOrders : UpsertActiveOrder(order)
    \/ DeleteOrder("o1")
    \/ ClearAllOrders
    \/ \E value \in BOOLEAN : SetIsPendingPersist(value)
    \/ \E data \in {<<>>} \cup PersistTables : SetAllSymbolMetadata(data)
    \/ GetAllSymbolMetadata
    \/ \E data \in PersistMetadata : SetSymbolMetadata("X", data)
    \/ DeletePositionMetadata("X")
    \/ \E v \in 0..MaxMetaVal : SetSymbolMetadataValue("X", "leaderId", v)

SpecStore == Init /\ [][NextStore]_vars

\* C15: getSessionSummary does not change the store: balance, previous balance, cached
\* hedged count, every position slot with the fields of its position, leverage,
\* orders, metadata and the pending-persist flag are after the call what they were
\* before it.
C15_SummaryMutatesNothing ==
    [][\A startingBalance \in StartingBalances :
          GetSessionSummary(startingBalance) =>
              /\ accountOtherState' = accountOtherState
              /\ accountPositionState' = accountPositionState
              /\ accountLeverageState' = accountLeverageState
              /\ accountOrders' = accountOrders
              /\ accountPositionMetadata' = accountPositionMetadata
              /\ isPendingPersistPositionMetadata' = isPendingPersistPositionMetadata]_vars

\* a summary was just returned by a store that holds an active position, a leverage,
\* an order, metadata, a raised flag and a stored previous balance
C15_Witness ==
    /\ lastSummary # NoSummary
    /\ Len(lastSummary.summary.activePositions) = 1
    /\ ObjHas(accountLeverageState, "X")
    /\ lastSummary.summary.activePositions[1].leverage = 5
    /\ getPreviousBalance = 1200
    /\ accountOrders # <<>>
    /\ accountPositionMetadata # <<>>
    /\ isPendingPersistPositionMetadata

\* C19: once isPendingPersist() is true it stays true across every store operation
\* except setIsPendingPersist(false): no query, position, order, balance, leverage or
\* metadata operation, a failing one included, takes the flag from true to false.
C19_OnlySetIsPendingPersistLowers ==
    [][(isPendingPersist /\ ~isPendingPersist') => SetIsPendingPersist(FALSE)]_vars

\* the flag is still up after a metadata delete, a failed setSymbolMetadataValue and
\* operations on a position, the balance, the leverage and an order
C19_Witness ==
    /\ isPendingPersist
    /\ lastError = "Error"
    /\ accountPositionMetadata = <<>>
    /\ Len(getAllPositions) = 1
    /\ getWalletBalance = 1200
    /\ ObjHas(accountLeverageState, "X")
    /\ accountOrders # <<>>

\* C21: store operations have no cross-entity side effects: setActivePosition,
\* deleteActivePosition and getActivePosition leave balance, leverage, orders, metadata
\* and the pending flag unchanged; order operations leave positions, balance, leverage,
\* metadata and the flag unchanged; balance and leverage operations leave positions,
\* orders, metadata and the flag unchanged; metadata operations leave positions,
\* orders, balance and leverage unchanged.
C21_NoCrossEntityEffects ==
    [][ /\ ( \/ GetActivePosition("X", "LONG")
             \/ \E p \in StorePositions : SetActivePosition("X", "LONG", p)
             \/ DeleteActivePosition("X", "LONG") )
           => UNCHANGED <<accountOtherState, accountLeverageState, accountOrders,
                          accountPositionMetadata, isPendingPersistPositionMetadata>>
        /\ ( \/ \E order \in StoreOrders : UpsertActiveOrder(order)
             \/ DeleteOrder("o1")
             \/ ClearAllOrders )
           => UNCHANGED <<accountPositionState, accountOtherState, accountLeverageState,
                          accountPositionMetadata, isPendingPersistPositionMetadata>>
        /\ ( \/ \E bal \in WalletBalances : SetWalletBalance(bal)
             \/ StorePreviousBalance
             \/ \E lev \in Leverages : SetSymbolLeverage("X", lev) )
           => UNCHANGED <<accountPositionState, accountOrders,
                          accountPositionMetadata, isPendingPersistPositionMetadata>>
        /\ ( \/ \E value \in BOOLEAN : SetIsPendingPersist(value)
             \/ \E data \in {<<>>} \cup PersistTables : SetAllSymbolMetadata(data)
             \/ GetAllSymbolMetadata
             \/ \E data \in PersistMetadata : SetSymbolMetadata("X", data)
             \/ DeletePositionMetadata("X")
             \/ \E v \in 0..MaxMetaVal : SetSymbolMetadataValue("X", "leaderId", v) )
           => UNCHANGED <<accountPositionState, accountOrders, accountOtherState,
                          accountLeverageState>> ]_vars

\* the position of X was deleted while its metadata, an order, a balance and a
\* leverage are in the store
C21_Witness ==
    /\ ObjHas(accountPositionState, "X")
    /\ ~ObjHas(ObjGet(accountPositionState, "X", <<>>), "LONG")
    /\ getSymbolMetadata("X") # Undefined
    /\ accountOrders # <<>>
    /\ getWalletBalance = 1200
    /\ ObjHas(accountLeverageState, "X")
    /\ ~isPendingPersist

\* ---------------------------------------------------------------- price events and the rest
\* the slots price events are checked on, the NONE slot of X among them
PriceSlots == ReportSlots \cup {<<"X", "NONE">>}

\* an open position for every slot, a short one for a SHORT slot, and a flat one for
\* the LONG slot of X
PricePositions(sd) ==
    {p \in ReportPositions(sd[1]) :
        \/ p.assetQty = (IF sd[2] = "SHORT" THEN -2 ELSE 2)
        \/ p.assetQty = 0 /\ sd = <<"X", "LONG">>}

NextPriceEvents ==
    \/ \E sd \in PriceSlots : \E p \in PricePositions(sd) : SetActivePosition(sd[1], sd[2], p)
    \/ \E s \in Symbols : ProcessPriceEvent(s, 110)
    \/ SetWalletBalance(1200)
    \/ \E lev \in Leverages : SetSymbolLeverage("X", lev)
    \/ UpsertActiveOrder([exchangeOrderId |-> "o1", status |-> "NEW", price |-> 1])
    \/ SetSymbolMetadata("X", [leaderId |-> 0, entryCount |-> 0])
    \/ SetIsPendingPersist(FALSE)

SpecPriceEvents == Init /\ [][NextPriceEvents]_vars

\* a position but for its valueUpnl
WithoutUpnl(position) ==
    IF position = Undefined THEN Undefined ELSE [position EXCEPT !.valueUpnl = 0]

BinanceReports ==
    {pos \in [symbol : Symbols, positionSide : {"BOTH", "LONG", "SHORT"},
              positionAmount : {-2, 0, 2}, entryPrice : {100}, unrealisedPnl : {0}] :
        /\ pos.positionSide = "LONG" => pos.positionAmount >= 0
        /\ pos.positionSide = "SHORT" => pos.positionAmount <= 0}

BybitReports ==
    {position \in [symbol : Symbols, side : {"Buy", "Sell", ""}, size : {0, 2}, entryPrice : {100},
                   positionValue : {200}, positionBalance : {40}, unrealisedPnl : {0}] :
        position.side = "" => position.size = 0}

\* the USDT balances of an event: none, or one
UpdatedBalances == {<<>>, <<1200>>}

\* BOTH becomes LONG or SHORT by the sign of the amount
binancePositionSide(pos) ==
    IF pos.positionSide = "BOTH"
    THEN (IF pos.positionAmount > 0 THEN "LONG" ELSE "SHORT")
    ELSE pos.positionSide

mapBinanceWsPositionToEnginePosition(pos) ==
    [symbol |-> pos.symbol, positionSide |-> binancePositionSide(pos),
     orderPositionSide |-> binancePositionSide(pos), positionPrice |-> pos.entryPrice,
     assetQty |-> pos.positionAmount, value |-> pos.positionAmount * pos.entryPrice,
     valueUpnl |-> pos.unrealisedPnl, marginValue |-> pos.positionAmount * pos.entryPrice]

bybitPositionSide(position) == IF position.side = "Buy" THEN "LONG" ELSE "SHORT"

mapBybitWsPositionToEnginePosition(pos) ==
    [symbol |-> pos.symbol, positionSide |-> bybitPositionSide(pos),
     orderPositionSide |-> bybitPositionSide(pos), positionPrice |-> pos.entryPrice,
     assetQty |-> pos.size, value |-> pos.positionValue, valueUpnl |-> pos.unrealisedPnl,
     marginValue |-> pos.positionBalance]

\* the store calls of a position handler: delete the slot when the report is a close,
\* write the mapped position otherwise
writeReport(symbol, side, closed, enginePos) ==
    /\ LET st == assertInitialStateActivePosition(accountPositionState, symbol)
       IN accountPositionState' =
              ObjSet(st, symbol, IF closed THEN ObjDelete(ObjGet(st, symbol, <<>>), side)
                                 ELSE ObjSet(ObjGet(st, symbol, <<>>), side, enginePos))
    /\ lastPositionWrite' =
           [lastPositionWrite EXCEPT ![symbol][side] = IF closed THEN Undefined ELSE enginePos]

\* the Binance handler for an event with one position: the balance first, then the
\* position, which it handles apart from any other of the event
handleAccountUpdate(updatedBalances, pos) ==
    /\ accountOtherState' = IF Len(updatedBalances) > 0
                            THEN [accountOtherState EXCEPT !.balance = updatedBalances[1]]
                            ELSE accountOtherState
    /\ writeReport(pos.symbol, binancePositionSide(pos), pos.positionAmount = 0,
                   mapBinanceWsPositionToEnginePosition(pos))
    /\ lastError' = "none"
    /\ UNCHANGED <<orderVars, metadataVars, persistVars, leverageVars, depthVars, peer, sharedMetadata>>
    /\ lastSummary' = NoSummary

\* the Bybit handler for the first position of a message
handlePositionUpdate(position) ==
    /\ writeReport(position.symbol, bybitPositionSide(position),
                   position.side = "" \/ position.size = 0,
                   mapBybitWsPositionToEnginePosition(position))
    /\ lastError' = "none"
    /\ UNCHANGED accountOtherState
    /\ UNCHANGED <<orderVars, metadataVars, persistVars, leverageVars, depthVars, peer, sharedMetadata>>
    /\ lastSummary' = NoSummary

NextAdapters ==
    \/ \E updatedBalances \in UpdatedBalances, pos \in BinanceReports : handleAccountUpdate(updatedBalances, pos)
    \/ \E position \in BybitReports : handlePositionUpdate(position)

SpecAdapters == Init /\ [][NextAdapters]_vars

\* the other side of a hedged pair
OtherSide(side) == IF side = "LONG" THEN "SHORT" ELSE "LONG"

\* the step is a handler's for a report that the position of the symbol on that side
\* is closed: a report that names the side, or a one-way report (BOTH, no side) when
\* the symbol has no position on the other side
ReportsClose(symbol, side) ==
    \/ \E updatedBalances \in UpdatedBalances, pos \in BinanceReports :
          /\ pos.symbol = symbol /\ pos.positionAmount = 0
          /\ \/ pos.positionSide = side
             \/ pos.positionSide = "BOTH" /\ ~IsActive(getActivePosition(symbol, OtherSide(side)))
          /\ handleAccountUpdate(updatedBalances, pos)
    \/ \E position \in BybitReports :
          /\ position.symbol = symbol /\ position.size = 0
          /\ \/ bybitPositionSide(position) = side /\ position.side # ""
             \/ position.side = "" /\ ~IsActive(getActivePosition(symbol, OtherSide(side)))
          /\ handlePositionUpdate(position)

\* C38: when a position handler of the example adapters gets the report that a
\* position is closed (amount or size 0), the store afterwards holds no active
\* position on the side of the symbol that was open; so the close of a LONG
\* position reported in one-way mode (BOTH on Binance, no side on Bybit) removes
\* the LONG slot.
C38_CloseRemovesOpenSide ==
    [][\A s \in Symbols, d \in HedgeSides :
          (IsActive(getActivePosition(s, d)) /\ ReportsClose(s, d))
              => ~IsActive(getActivePosition(s, d)')]_vars

\* ================================================================ numbers
\* A JavaScript number is a fraction n/d in lowest terms with d > 0, or one of the
\* three values a division by zero produces: 1/0 is Infinity, -1/0 is -Infinity and
\* 0/0 is NaN.  Fractions are exact: the rounding of a double is not in the model.
Sgn(i) == IF i > 0 THEN 1 ELSE IF i < 0 THEN -1 ELSE 0

Abs(i) == IF i < 0 THEN -i ELSE i

RECURSIVE Gcd(_, _)
Gcd(a, b) == IF b = 0 THEN a ELSE Gcd(b, a % b)

\* the number n/d, for d # 0
Frac(n, d) ==
    LET g == Gcd(Abs(n), Abs(d))
    IN [n |-> Sgn(d) * (n \div g), d |-> Abs(d) \div g]

\* the number an integer literal stands for
Num(i) == [n |-> i, d |-> 1]

NaN == [n |-> 0, d |-> 0]

Infinity(sign) == [n |-> sign, d |-> 0]

IsNaN(x) == x.d = 0 /\ x.n = 0

IsInfinite(x) == x.d = 0 /\ x.n # 0

IsZero(x) == x.d # 0 /\ x.n = 0

\* a + b
JsAdd(a, b) ==
    IF IsNaN(a) \/ IsNaN(b) THEN NaN
    ELSE IF IsInfinite(a) /\ IsInfinite(b) THEN (IF a.n = b.n THEN a ELSE NaN)
    ELSE IF IsInfinite(a) THEN a
    ELSE IF IsInfinite(b) THEN b
    ELSE Frac(a.n * b.d + b.n * a.d, a.d * b.d)

\* a - b
JsSub(a, b) == JsAdd(a, [n |-> -b.n, d |-> b.d])

\* a * b
JsMul(a, b) ==
    IF IsNaN(a) \/ IsNaN(b) THEN NaN
    ELSE IF IsInfinite(a) \/ IsInfinite(b)
         THEN (IF IsZero(a) \/ IsZero(b) THEN NaN ELSE Infinity(Sgn(a.n) * Sgn(b.n)))
    ELSE Frac(a.n * b.n, a.d * b.d)

\* a / b; a zero divisor counts as +0
JsDiv(a, b) ==
    IF IsNaN(a) \/ IsNaN(b) THEN NaN
    ELSE IF IsInfinite(a) THEN (IF IsInfinite(b) THEN NaN
                               ELSE Infinity(IF b.n < 0 THEN -a.n ELSE a.n))
    ELSE IF IsInfinite(b) THEN Num(0)
    ELSE IF IsZero(b) THEN (IF IsZero(a) THEN NaN ELSE Infinity(Sgn(a.n)))
    ELSE Frac(a.n * b.d, a.d * b.n)

\* Math.abs(x)
MathAbs(x) == [n |-> Abs(x.n), d |-> x.d]

\* a >= b, false when either is NaN
JsGe(a, b) ==
    IF IsNaN(a) \/ IsNaN(b) THEN FALSE
    ELSE IF IsInfinite(a) THEN (a.n > 0 \/ (IsInfinite(b) /\ b.n < 0))
    ELSE IF IsInfinite(b) THEN b.n < 0
    ELSE a.n * b.d >= b.n * a.d

\* a > b, false when either is NaN
JsGt(a, b) == JsGe(a, b) /\ ~JsGe(b, a)

\* the truthiness of a number: 0 and NaN are falsy
Truthy(x) == ~IsNaN(x) /\ ~IsZero(x)

\* a conversion that keeps every decimal
toFixedNumber_identity(stringNumber) == stringNumber

\* Number(Number(x).toFixed(2)): the nearest multiple of 1/100, a tie going away from
\* zero; Infinity and NaN print as themselves and parse back
toFixedNumber(stringNumber) ==
    IF stringNumber.d = 0 THEN stringNumber
    ELSE LET hundredths == (200 * Abs(stringNumber.n) + stringNumber.d) \div (2 * stringNumber.d)
         IN Frac(Sgn(stringNumber.n) * hundredths, 100)

\* ================================================================ depth utilities
\* reduce((acc, position) => acc + Number(position.valueUpnl), 0)
RECURSIVE upnlReduce(_, _, _)
upnlReduce(activePositions, i, acc) ==
    IF i > Len(activePositions) THEN acc
    ELSE upnlReduce(activePositions, i + 1, JsAdd(acc, Num(activePositions[i].valueUpnl)))

getUnrealisedPnl(activePositions) == upnlReduce(activePositions, 1, Num(0))

calculateDepthForPosition(asset, symbol, baseAssetBalance, positionAmount, entryPrice, unrealisedPnl, totalNetUnrealisedPnl, leverage) ==
    LET estimatedValue == MathAbs(JsMul(positionAmount, entryPrice))
        estimatedValueWithLeverage ==
            MathAbs(JsDiv(estimatedValue, IF Truthy(leverage) THEN leverage ELSE Num(1)))
        positionDepth == JsMul(JsDiv(estimatedValueWithLeverage, baseAssetBalance), Num(100))
        positionDepthUnrealised ==
            JsMul(JsDiv(JsSub(estimatedValueWithLeverage, totalNetUnrealisedPnl), baseAssetBalance),
                  Num(100))
        balanceRemaining == JsSub(baseAssetBalance, estimatedValueWithLeverage)
        estimatedPnlPct == JsMul(JsDiv(unrealisedPnl, estimatedValueWithLeverage), Num(100))
    IN [asset |-> asset,
        symbol |-> symbol,
        positionAmount |-> positionAmount,
        estimatedValue |-> toFixedNumber(estimatedValue),
        estimatedValueWithLeverage |-> toFixedNumber(estimatedValueWithLeverage),
        positionDepth |-> toFixedNumber(positionDepth),
        positionDepthUnrealised |-> toFixedNumber(positionDepthUnrealised),
        balanceRemaining |-> toFixedNumber(balanceRemaining),
        unrealisedPnL |-> toFixedNumber(unrealisedPnl),
        estimatedPnlPct |-> toFixedNumber(estimatedPnlPct)]

\* a lookup that takes a symbol without an entry for leverage 2
cachedLeverage_defaultsTo2(symbolLeverageCache, symbol) ==
    IF ObjHas(symbolLeverageCache, symbol) /\ Truthy(Num(ObjGet(symbolLeverageCache, symbol, 0)))
    THEN Num(ObjGet(symbolLeverageCache, symbol, 0))
    ELSE Num(2)

\* symbolLeverageCache[symbol] || 1
cachedLeverage(symbolLeverageCache, symbol) ==
    IF ObjHas(symbolLeverageCache, symbol) /\ Truthy(Num(ObjGet(symbolLeverageCache, symbol, 0)))
    THEN Num(ObjGet(symbolLeverageCache, symbol, 0))
    ELSE Num(1)

\* positions passed as undefined
NoPositions == <<Undefined>>

calculateDepthForPositions(balanceAvailable, symbolLeverageCache, positions, quoteBalanceAsset) ==
    IF positions = NoPositions THEN <<>>
    ELSE LET totalNetUnrealisedPnl == getUnrealisedPnl(positions)
         IN [i \in 1..Len(positions) |->
                calculateDepthForPosition(quoteBalanceAsset,
                                          positions[i].symbol,
                                          balanceAvailable,
                                          Num(positions[i].assetQty),
                                          Num(positions[i].positionPrice),
                                          Num(positions[i].valueUpnl),
                                          totalNetUnrealisedPnl,
                                          cachedLeverage(symbolLeverageCache, positions[i].symbol))]

\* the reduce of calulateDepthSummaryForAllPositions over the depth of each position
RECURSIVE depthReduce(_, _, _, _)
depthReduce(depthByPosition, i, leverageType, acc) ==
    IF i > Len(depthByPosition) THEN acc
    ELSE depthReduce(depthByPosition, i + 1, leverageType,
             [rawDepthSum |-> JsAdd(acc.rawDepthSum, depthByPosition[i].positionDepth),
              estimatedValueWithLeverage |->
                  JsAdd(acc.estimatedValueWithLeverage, depthByPosition[i].estimatedValueWithLeverage),
              unrealisedPnL |->
                  JsAdd(acc.unrealisedPnL,
                        IF leverageType # "" THEN depthByPosition[i].unrealisedPnL ELSE Num(0))])

\* the clamp depthWithPnL >= 100 ? 100 : depthWithPnL left out
clamped_not(depthWithPnL) == depthWithPnL

\* depthWithPnL >= 100 ? 100 : depthWithPnL
clamped(depthWithPnL) == IF JsGe(depthWithPnL, Num(100)) THEN Num(100) ELSE depthWithPnL

calulateDepthSummaryForAllPositions(balance, symbolLeverageCache, positions, quoteBalanceAsset, leverageType) ==
    LET depthByPosition ==
            calculateDepthForPositions(balance, symbolLeverageCache, positions, quoteBalanceAsset)
        sums == depthReduce(depthByPosition, 1, leverageType,
                            [rawDepthSum |-> Num(0), estimatedValueWithLeverage |-> Num(0),
                             unrealisedPnL |-> Num(0)])
        crossBalance == JsAdd(balance, sums.unrealisedPnL)
        depthWithoutPnL == JsMul(JsDiv(sums.estimatedValueWithLeverage, balance), Num(100))
        depthWithPnL == JsMul(JsDiv(sums.estimatedValueWithLeverage, crossBalance), Num(100))
    IN [rawDepthSum |-> sums.rawDepthSum,
        estimatedValueWithLeverage |-> sums.estimatedValueWithLeverage,
        unrealisedPnL |-> sums.unrealisedPnL,
        crossBalance |-> toFixedNumber(crossBalance),
        depthWithoutPnL |-> toFixedNumber(depthWithoutPnL),
        depthWithPnL |-> toFixedNumber(clamped(depthWithPnL))]

\* the arguments of the depth utilities: a balance that may be zero or negative, a
\* cache that may lack the symbol or hold a zero, positions long and short, in profit
\* and at a loss that eats the balance
DepthBalances == {-300, 0, 300}
DepthCaches == {<<>>} \cup { <<[key |-> "X", value |-> lev]>> : lev \in {0, 1, 2} }
DepthPositions ==
    [symbol : Symbols, assetQty : {-2, 1}, positionPrice : {100}, valueUpnl : {-150, 50}]
DepthPositionLists ==
    {NoPositions, <<>>} \cup { <<p>> : p \in DepthPositions }
        \cup { <<p, q>> : p \in DepthPositions, q \in DepthPositions }
DepthInputs ==
    [balance : DepthBalances, symbolLeverageCache : DepthCaches, positions : DepthPositionLists]

InitDepth == InitStore /\ redisData = NoData /\ depthInput \in DepthInputs

CalculateDepthForPosition(i, leverage) ==
    /\ depthInput.positions # NoPositions
    /\ i \in 1..Len(depthInput.positions)
    /\ LET pos == depthInput.positions[i]
       IN depthReport' =
              [fn |-> "calculateDepthForPosition", threw |-> FALSE, leverage |-> leverage, position |-> i,
               value |-> << calculateDepthForPosition("USDT", pos.symbol, Num(depthInput.balance),
                                                      Num(pos.assetQty), Num(pos.positionPrice),
                                                      Num(pos.valueUpnl),
                                                      getUnrealisedPnl(depthInput.positions),
                                                      Num(leverage)) >>]
    /\ UNCHANGED <<positionVars, orderVars, metadataVars, persistVars, leverageVars>>
    /\ UNCHANGED <<depthInput, peer, sharedMetadata, lastError, lastSummary>>

CalculateDepthForPositions ==
    /\ depthReport' =
           [fn |-> "calculateDepthForPositions", threw |-> FALSE, leverage |-> 0, position |-> 0,
            value |-> calculateDepthForPositions(Num(depthInput.balance), depthInput.symbolLeverageCache,
                                                 depthInput.positions, "USDT")]
    /\ UNCHANGED <<positionVars, orderVars, metadataVars, persistVars, leverageVars>>
    /\ UNCHANGED <<depthInput, peer, sharedMetadata, lastError, lastSummary>>

CalulateDepthSummaryForAllPositions(leverageType) ==
    /\ depthReport' =
           [fn |-> "calulateDepthSummaryForAllPositions", threw |-> FALSE, leverage |-> 0, position |-> 0,
            value |-> << calulateDepthSummaryForAllPositions(Num(depthInput.balance),
                                                             depthInput.symbolLeverageCache,
                                                             depthInput.positions, "USDT", leverageType) >>]
    /\ UNCHANGED <<positionVars, orderVars, metadataVars, persistVars, leverageVars>>
    /\ UNCHANGED <<depthInput, peer, sharedMetadata, lastError, lastSummary>>

NextDepth ==
    \/ \E i \in 1..2, leverage \in {0, 2} : CalculateDepthForPosition(i, leverage)
    \/ CalculateDepthForPositions
    \/ \E leverageType \in {"cross", "isolated"} : CalulateDepthSummaryForAllPositions(leverageType)

SpecDepth == InitDepth /\ [][NextDepth]_vars

\* C16: a depth-percentage calculation (calculateDepthForPosition,
\* calculateDepthForPositions, calulateDepthSummaryForAllPositions) called with an
\* available balance of zero fails with an error instead of returning a report.
C16_ZeroBalanceFails ==
    (depthReport # NoReport /\ depthInput.balance = 0) => depthReport.threw

\* the positions of the input whose symbol has no entry in the leverage cache
WithoutLeverage ==
    IF depthInput.positions = NoPositions THEN {}
    ELSE {i \in 1..Len(depthInput.positions) :
              ~ObjHas(depthInput.symbolLeverageCache, depthInput.positions[i].symbol)}

\* what calculateDepthForPosition returns for position i of the input at leverage 1
AtLeverageOne(i) ==
    LET pos == depthInput.positions[i]
    IN calculateDepthForPosition("USDT", pos.symbol, Num(depthInput.balance), Num(pos.assetQty),
                                 Num(pos.positionPrice), Num(pos.valueUpnl),
                                 getUnrealisedPnl(depthInput.positions), Num(1))

\* |quantity * entryPrice| of position i of the input
ExactValue(i) ==
    Num(Abs(depthInput.positions[i].assetQty * depthInput.positions[i].positionPrice))

\* |quantity * entryPrice| / availableBalance * 100 of position i of the input
ExactDepth(i) == JsMul(JsDiv(ExactValue(i), Num(depthInput.balance)), Num(100))

\* r is x to two decimals: a multiple of 1/100 at most 1/200 away from x, and x itself
\* when x is Infinity or NaN
IsTwoDecimalsOf(r, x) ==
    IF x.d = 0 THEN r = x
    ELSE r.d # 0 /\ 100 % r.d = 0 /\ JsGe(Frac(1, 200), MathAbs(JsSub(r, x)))

\* C17 as stated: for a position whose symbol has no entry in the leverage cache the
\* depth calculation raises no error and returns what it returns for leverage 1, with
\* estimatedValueWithLeverage = |quantity * entryPrice| and
\* positionDepth = estimatedValueWithLeverage / availableBalance * 100.
C17_MissingLeverageIsOne ==
    (depthReport # NoReport /\ depthReport.fn = "calculateDepthForPositions") =>
        /\ ~depthReport.threw
        /\ \A i \in WithoutLeverage :
              /\ depthReport.value[i] = AtLeverageOne(i)
              /\ depthReport.value[i].estimatedValueWithLeverage = ExactValue(i)
              /\ depthReport.value[i].positionDepth = ExactDepth(i)

\* C17 amended: for a position whose symbol has no entry in the leverage cache the
\* depth calculation raises no error and returns what it returns for leverage 1, with
\* estimatedValueWithLeverage and positionDepth being |quantity * entryPrice| and
\* |quantity * entryPrice| / availableBalance * 100 rounded to two decimals.
C17_MissingLeverageIsOneRounded ==
    (depthReport # NoReport /\ depthReport.fn = "calculateDepthForPositions") =>
        /\ ~depthReport.threw
        /\ \A i \in WithoutLeverage :
              /\ depthReport.value[i] = AtLeverageOne(i)
              /\ IsTwoDecimalsOf(depthReport.value[i].estimatedValueWithLeverage, ExactValue(i))
              /\ IsTwoDecimalsOf(depthReport.value[i].positionDepth, ExactDepth(i))

\* the depth of a position of Y, which the cache of X at leverage 2 does not know, on
\* a balance of 300: a third of the balance, reported as 33.33
C17_Witness ==
    /\ depthReport # NoReport
    /\ depthReport.fn = "calculateDepthForPositions"
    /\ ObjHas(depthInput.symbolLeverageCache, "X")
    /\ ObjGet(depthInput.symbolLeverageCache, "X", 0) = 2
    /\ depthInput.balance = 300
    /\ 2 \in WithoutLeverage
    /\ 1 \notin WithoutLeverage
    /\ depthReport.value[2].positionDepth = Frac(3333, 100)
    /\ depthReport.value[2].estimatedValueWithLeverage = Num(100)

\* C18: for every balance, leverage cache and list of positions, the depthWithPnL that
\* calulateDepthSummaryForAllPositions reports is not greater than 100.
C18_DepthWithPnLAtMost100 ==
    (depthReport # NoReport /\ depthReport.fn = "calulateDepthSummaryForAllPositions") =>
        ~JsGt(depthReport.value[1].depthWithPnL, Num(100))

\* a summary whose positions commit more than the balance that the losses leave,
\* reported as 100
C18_Witness ==
    /\ depthReport # NoReport
    /\ depthReport.fn = "calulateDepthSummaryForAllPositions"
    /\ JsGt(depthReport.value[1].crossBalance, Num(0))
    /\ JsGt(depthReport.value[1].estimatedValueWithLeverage, depthReport.value[1].crossBalance)
    /\ depthReport.value[1].depthWithPnL = Num(100)

====
